---- MODULE Spec2Model ----
(***************************************************************************)
(* State-machine model of doggy's TUI runtime: the action-dispatch loop of *)
(* App::run, the Component (screen) variants and their update handlers,    *)
(* the cancellable background tasks of the container list and the          *)
(* container-log screen, the exec hand-off and the line editor.            *)
(***************************************************************************)
EXTENDS Integers, Sequences, FiniteSets, TLC

(***************************************************************************)
(* Bounds of the model                                                     *)
(***************************************************************************)
\* ids of the resources the runtime can report in one list call
MaxItems == 2
\* task slots of the tokio runtime that the model tracks at once
MaxTasks == 2
\* lines kept in a shared log buffer
MaxLog == 1
\* characters the line editor accepts
MaxInput == 2
MaxCancels == 3
MaxFilter == 4

(***************************************************************************)
(* Program constants                                                       *)
(***************************************************************************)
DEFAULT_TOAST_DELAY == 8

CONTAINERS == <<"c", "o", "n", "t", "a", "i", "n", "e", "r", "s">>
COMPOSES == <<"c", "o", "m", "p", "o", "s", "e", "s">>
IMAGES == <<"i", "m", "a", "g", "e", "s">>
NETWORKS == <<"n", "e", "t", "w", "o", "r", "k", "s">>
VOLUMES == <<"v", "o", "l", "u", "m", "e", "s">>

\* TableState::selected() == None
NoSel == 0 - 1

(***************************************************************************)
(* Variables                                                               *)
(***************************************************************************)
VARIABLES
    pc,              \* position of App::run: "await", "drain", "done", "failed", "panicked"
    queue,           \* the unbounded action channel (action_tx / action_rx)
    should_quit,     \* App.should_quit
    should_suspend,  \* App.should_suspend
    input,           \* App.input, a sequence of characters
    input_mode,      \* App.input_mode
    cursor_position, \* App.cursor_position
    suggestion,      \* App.suggestion
    show_popup,      \* App.show_popup
    main,            \* the active Component
    tui,             \* the terminal driver
    tasks,           \* the spawned background tasks, by slot
    bufs,            \* the shared log buffers, by id
    locks,           \* the holder of each tokio Mutex (metrics maps, log buffers): a task slot or 0
    sent,            \* history: actions sent on the channel in this loop iteration
    done             \* history: actions handled in this loop iteration (cancel calls in SpecCancel)

vars == <<locks, pc, queue, should_quit, should_suspend, input, input_mode, cursor_position,
          suggestion, show_popup, main, tui, tasks, bufs, sent, done>>

(***************************************************************************)
(* Values                                                                  *)
(***************************************************************************)
\* a character of a Rust String is a one-character string; "E" stands for a
\* character whose UTF-8 encoding has two bytes, such as e-acute
len_utf8(ch) == IF ch = "E" THEN 2 ELSE 1

RECURSIVE len(_)
\* String::len: the length in bytes
len(s) == IF s = <<>> THEN 0 ELSE len_utf8(Head(s)) + len(Tail(s))

\* chars().count(): the length in characters
chars_count(s) == Len(s)

\* String::is_char_boundary
is_char_boundary(s, idx) == \E k \in 0..Len(s) : len(SubSeq(s, 1, k)) = idx

\* chars().take(n)
take(s, n) == SubSeq(s, 1, IF n < Len(s) THEN n ELSE Len(s))

\* chars().skip(n)
skip(s, n) == SubSeq(s, n + 1, Len(s))

\* str::starts_with
starts_with(s, p) == Len(p) <= Len(s) /\ SubSeq(s, 1, Len(p)) = p

\* usize::clamp
clamp(x, lo, hi) == IF x < lo THEN lo ELSE IF x > hi THEN hi ELSE x

\* usize::saturating_sub
saturating_sub(x, y) == IF x < y THEN 0 ELSE x - y

RECURSIVE SortedSeq(_)
\* Vec::sort_by on the ids of a list answer
SortedSeq(S) ==
    IF S = {} THEN <<>>
    ELSE LET m == CHOOSE x \in S : \A y \in S : x <= y
         IN <<m>> \o SortedSeq(S \ {m})

\* the answers a successful list call of the runtime client can give, sorted
ListAnswers == {SortedSeq(S) : S \in SUBSET (1..MaxItems)}

(***************************************************************************)
(* Actions (enum Action)                                                   *)
(***************************************************************************)
Act(t) == [t |-> t]
ActError(msg) == [t |-> "Error", msg |-> msg]
ActScreen(s) == [t |-> "Screen", s |-> s]

\* what the histories keep of an action
Tag(a) == IF a.t = "Screen" THEN <<"Screen", a.s.kind>> ELSE <<a.t>>

Tags(q) == [i \in 1..Len(q) |-> Tag(q[i])]

(***************************************************************************)
(* Components (enum Component) and their constructors                      *)
(***************************************************************************)
Blank == [kind |-> "None", items |-> <<>>, sel |-> NoSel, popup |-> "None", pid |-> 0,
          cid |-> 0, task |-> 0, buf |-> 0, should_stop |-> FALSE, since |-> 0,
          filter |-> <<>>, sort |-> <<>>, all |-> FALSE]
\* filter is the Filter of a container list: <<>> when its map is empty, <<key,
\* value>> when it holds one entry (the one character a row id is written with
\* stands for the image id or the compose label a row gives to Containers::new)

\* Images::new, Volumes::new, Networks::new, Composes::new: sort is sort_by, the
\* column and the order (Composes has none)
NewList(kind) ==
    [Blank EXCEPT !.kind = kind,
                  !.sort = IF kind = "Images" THEN <<"Age", "Asc">>
                           ELSE IF kind = "Volumes" THEN <<"Id", "Asc">>
                           ELSE IF kind = "Networks" THEN <<"Name", "Asc">>
                           ELSE <<>>]

\* Containers::new: task is the slot of the metrics task it spawned
NewContainers(w) ==
    [Blank EXCEPT !.kind = "Containers", !.task = w, !.sort = <<"Name", "Asc">>]

\* ContainerLogs::new: task is the slot of the follower it spawned, buf its log buffer
NewContainerLogs(cid, w, b) ==
    [Blank EXCEPT !.kind = "ContainerLogs", !.cid = cid, !.task = w, !.buf = b, !.since = 15]

\* ContainerView::new, ContainerDetails::new, ImageInspect::new, NetworkInspect::new,
\* VolumeInspect::new, ComposeView::new
NewDetail(kind, id) == [Blank EXCEPT !.kind = kind, !.cid = id]

\* ContainerExec::new
NewContainerExec(cid) == [Blank EXCEPT !.kind = "ContainerExec", !.cid = cid]

(***************************************************************************)
(* Background tasks                                                        *)
(***************************************************************************)
\* the tokio Mutexes: lock b in 1..MaxTasks guards the log buffer b, lock
\* MaxTasks + w the metrics map of the container list whose task is in slot w
Locks == 1..(2 * MaxTasks)

\* no Mutex is held
NoLocks == [l \in Locks |-> 0]

\* the Mutex a task locks: `logs` of its log screen, `metrics` of its container list
LockOf(t, w) == IF t[w].kind = "logs" THEN t[w].buf ELSE MaxTasks + w

\* the Mutex the draw of a component locks, 0 when it locks none
MainLock(m) ==
    IF m.kind = "ContainerLogs" THEN m.buf
    ELSE IF m.kind = "Containers" THEN MaxTasks + m.task
    ELSE 0

\* a guard that is kept over the await that follows: the fault C22 rules out
release_AfterAwait(lk, l) == lk

\* the MutexGuard is dropped
release(lk, l) == [lk EXCEPT ![l] = 0]

\* a task slot: st is "free", "start" (parked at the await that opens the log
\* stream), "idle" (parked at the select! or the sleep of its loop), "busy" (being
\* polled by a worker thread, holding a stream item or the statistics it is about
\* to write), "push" (between taking the Mutex and dropping its guard), "spin" (a
\* follower whose stream has ended and yields None at every turn) or "done" (it
\* will not run again); cancelled is the state of its CancellationToken,
\* aborted that of JoinHandle::abort
FreeTask == [kind |-> "none", st |-> "free", cancelled |-> FALSE, aborted |-> FALSE, buf |-> 0]

LiveSt == {"start", "idle", "busy", "push", "spin"}

Screens(q) == {q[i].s : i \in {j \in 1..Len(q) : q[j].t = "Screen"}}

\* slots a Component value still names (the active one or one travelling in an action)
TaskRefs(m, q) == {m.task} \cup {s.task : s \in Screens(q)}

BufRefs(m, q) == {m.buf} \cup {s.buf : s \in Screens(q)}

FreeSlots(t, m, q) == {w \in 1..MaxTasks : t[w].st \notin LiveSt /\ w \notin TaskRefs(m, q)}

FreeBufs(t, m, q) ==
    {b \in 1..MaxTasks : b \notin BufRefs(m, q)
                         /\ \A w \in 1..MaxTasks : t[w].st \in LiveSt => t[w].buf # b}

\* a finished task no Component names any more is freed by the runtime
Reclaim(t, m, q) ==
    [w \in 1..MaxTasks |-> IF t[w].st = "done" /\ w \notin TaskRefs(m, q) THEN FreeTask ELSE t[w]]

\* a log buffer (Arc<Mutex<Vec<..>>>) no Component holds any more is out of sight
ReclaimBufs(b, m, q) == [i \in 1..MaxTasks |-> IF i \in BufRefs(m, q) THEN b[i] ELSE <<>>]

\* tokio::spawn(run_setup_task(..)) of a metrics task or a log follower
Spawned(t, w, kind, b) ==
    [t EXCEPT ![w] = [kind |-> kind, st |-> IF kind = "logs" THEN "start" ELSE "idle",
                      cancelled |-> FALSE, aborted |-> FALSE, buf |-> b]]

\* a cancel whose second call takes the first one back: the fault C7 rules out
cancel_Toggles(t, w) ==
    IF w = 0 THEN t
    ELSE [t EXCEPT ![w].cancelled = ~@, ![w].aborted = ~@,
                   ![w].st = IF @ \in {"start", "idle"} THEN "done" ELSE @]

\* Containers::cancel and ContainerLogs::cancel on the task a Component names:
\* cancellation_token.cancel(); task.abort(). Neither waits for the task: one
\* parked at an await never runs again, one being polled goes on to the end of
\* its poll
cancel(t, w) ==
    IF w = 0 THEN t
    ELSE [t EXCEPT ![w].cancelled = TRUE, ![w].aborted = TRUE,
                   ![w].st = IF @ \in {"start", "idle"} THEN "done" ELSE @]

(***************************************************************************)
(* The line editor of App                                                  *)
(***************************************************************************)
\* App::clamp_cursor
clamp_cursor(i, new_cursor_pos) == clamp(new_cursor_pos, 0, len(i))

\* App::move_cursor_left
move_cursor_left(e) ==
    [e EXCEPT !.cursor_position = clamp_cursor(e.input, saturating_sub(e.cursor_position, 1))]

\* App::move_cursor_right
move_cursor_right(e) ==
    [e EXCEPT !.cursor_position = clamp_cursor(e.input, e.cursor_position + 1)]

\* App::delete_char
delete_char(e) ==
    IF e.cursor_position # 0
    THEN move_cursor_left([e EXCEPT !.input = take(e.input, e.cursor_position - 1)
                                               \o skip(e.input, e.cursor_position)])
    ELSE e

\* String::insert at a byte index that is a character boundary
insert(i, idx, ch) ==
    LET k == CHOOSE k \in 0..Len(i) : len(SubSeq(i, 1, k)) = idx
    IN SubSeq(i, 1, k) \o <<ch>> \o SubSeq(i, k + 1, Len(i))

\* App::enter_char, where String::insert does not panic
enter_char(e, ch) ==
    move_cursor_right([e EXCEPT !.input = insert(e.input, e.cursor_position, ch)])

\* String::insert panics when the index is no character boundary
enter_char_panics(e) == ~is_char_boundary(e.input, e.cursor_position)

\* runtime::get_suggestions with the docker client
get_suggestions == <<CONTAINERS, COMPOSES, IMAGES, NETWORKS, VOLUMES>>

\* App::update_suggestion: None is <<>>
update_suggestion(i) ==
    LET hits == {k \in 1..Len(get_suggestions) : starts_with(get_suggestions[k], i)}
    IN IF hits = {} THEN <<>>
       ELSE get_suggestions[CHOOSE k \in hits : \A j \in hits : k <= j]

\* App::reset_input
reset_input(e) == [e EXCEPT !.input = <<>>, !.cursor_position = 0, !.input_mode = "None"]

\* the Component App::submit_input names in Change mode, "" when the match falls through
SubmitKind(sg) ==
    IF sg = CONTAINERS THEN "Containers"
    ELSE IF sg = COMPOSES THEN "Composes"
    ELSE IF sg = IMAGES THEN "Images"
    ELSE IF sg = VOLUMES THEN "Volumes"
    ELSE IF sg = NETWORKS THEN "Networks"
    ELSE ""

(***************************************************************************)
(* Key events and key bindings                                             *)
(***************************************************************************)
Key(code) == [code |-> code, ch |-> "", ctrl |-> FALSE, n |-> 0]
KeyChar(ch) == [code |-> "Char", ch |-> ch, ctrl |-> FALSE, n |-> 0]
KeyCtrl(ch) == [code |-> "Char", ch |-> ch, ctrl |-> TRUE, n |-> 0]
\* KeyCode::F(n)
KeyF(n) == [code |-> "F", ch |-> "", ctrl |-> FALSE, n |-> n]

\* Option<Action>: None is <<>>, Some(a) is <<a>>
None == <<>>
Some(a) == <<a>>

\* the minutes ContainerLogs::get_action binds to the keys '1'..'5'
SinceOf(ch) ==
    IF ch = "1" THEN 1 ELSE IF ch = "2" THEN 3 ELSE IF ch = "3" THEN 5
    ELSE IF ch = "4" THEN 10 ELSE 15

\* a lookup that answers the first row whatever row is selected: the fault C40
\* rules out
Selected_FirstRow(m) == IF m.items # <<>> THEN m.items[1] ELSE 0

\* get_selected_container_info and its siblings: the id of the selected row, 0 for None
Selected(m) == IF m.sel >= 0 /\ m.sel < Len(m.items) THEN m.items[m.sel + 1] ELSE 0

\* Component::get_action, for the variants whose binding builds no Containers value
get_action(m, k) ==
    IF m.kind = "Containers" THEN
        IF k.code = "Char" /\ k.ch = "i" THEN Some(Act("Inspect"))
        ELSE IF k.code = "Char" /\ k.ch = "l" THEN Some(Act("Logs"))
        ELSE IF k.code = "Char" /\ k.ch = "s" THEN Some(Act("Shell"))
        ELSE IF k.code = "Char" /\ k.ch = "S" THEN Some(Act("CustomShell"))
        ELSE IF k.code = "Enter" THEN Some(Act("Ok"))
        ELSE None
    ELSE IF m.kind = "ContainerLogs" THEN
        IF k.code = "Char" /\ k.ch = "s" THEN Some(Act("AutoScroll"))
        ELSE IF k.code = "Char" /\ k.ch \in {"1", "2", "3", "4", "5"} THEN Some([t |-> "Since", n |-> SinceOf(k.ch)])
        ELSE None
    ELSE IF m.kind = "Composes" /\ Selected(m) # 0 THEN
        IF k.code = "Enter" THEN Some(ActScreen(NewDetail("ComposeView", Selected(m))))
        ELSE IF k.code = "Char" /\ k.ch = "v" THEN Some(ActScreen(NewList("Volumes")))
        ELSE IF k.code = "Char" /\ k.ch = "n" THEN Some(ActScreen(NewList("Networks")))
        ELSE None
    ELSE None

\* the bindings of Images::get_action and Composes::get_action that call Containers::new
BindsContainers(m, k) ==
    /\ m.kind \in {"Images", "Composes"}
    /\ Selected(m) # 0
    /\ k.code = "Char" /\ k.ch = "c"

\* Component::has_filter
has_filter(m) == m.kind \in {"Containers", "Images", "Networks", "Volumes"}

\* the fixed keymap of App::handle_key
GlobalKey(m, k) ==
    IF k.code = "Char" /\ k.ch = "a" THEN Some(Act("All"))
    ELSE IF k.code = "Char" /\ k.ch = "q" THEN Some(Act("Quit"))
    ELSE IF k.code = "Char" /\ k.ch = ":" THEN Some(Act("Change"))
    ELSE IF k.code = "Char" /\ k.ch = "/" THEN (IF has_filter(m) THEN Some(Act("Filter")) ELSE None)
    ELSE IF k.code = "Down" \/ (k.code = "Char" /\ k.ch = "j") THEN Some(Act("Down"))
    ELSE IF k.code = "Up" \/ (k.code = "Char" /\ k.ch = "k") THEN Some(Act("Up"))
    ELSE IF k.code = "Char" /\ k.ch = "?" THEN Some(Act("Help"))
    ELSE IF k.code = "F" THEN Some([t |-> "SortColumn", n |-> k.n])
    ELSE IF k.code = "PageUp" THEN Some(Act("PageUp"))
    ELSE IF k.code = "PageDown" THEN Some(Act("PageDown"))
    ELSE IF k.code = "Esc" THEN Some(Act("PreviousScreen"))
    ELSE IF k.code = "Enter" THEN Some(Act("Ok"))
    ELSE IF k.code = "Char" /\ k.ch = "d" THEN (IF k.ctrl THEN Some(Act("Delete")) ELSE None)
    ELSE None

\* a handle_key that asks the screen for its binding whatever popup is shown
handle_key_PopupBlind(m, popup, k) ==
    IF get_action(m, k) # None THEN get_action(m, k) ELSE GlobalKey(m, k)

\* App::handle_key: the screen binding when no App popup is shown, else the keymap
handle_key(m, popup, k) ==
    LET action == IF popup.k = "None" THEN get_action(m, k) ELSE None
    IN IF action # None THEN action ELSE GlobalKey(m, k)

(***************************************************************************)
(* Component::update, one operator per variant.  Each yields the set of    *)
(* outcomes the runtime client's answers allow: the component after the    *)
(* call, the actions it sent, the tasks and buffers, and how the call      *)
(* ended ("ok", "err" for an Err that `?` hands to App::run, "panic").     *)
(***************************************************************************)
Res(m, out, t, b, end) == [m |-> m, out |-> out, tasks |-> t, bufs |-> b, end |-> end]

\* next() of the list components
next(m) ==
    IF m.items # <<>>
    THEN [m EXCEPT !.sel = IF m.sel = NoSel THEN 0
                           ELSE IF m.sel >= Len(m.items) - 1 THEN 0 ELSE m.sel + 1]
    ELSE m

\* previous() of the list components
previous(m) ==
    IF m.items # <<>>
    THEN [m EXCEPT !.sel = IF m.sel = NoSel THEN 0
                           ELSE IF m.sel = 0 THEN Len(m.items) - 1 ELSE m.sel - 1]
    ELSE m

\* the refresh of a list component on Tick with the answer l
Refreshed(m, l) == [m EXCEPT !.items = l, !.sel = IF m.sel = NoSel THEN 0 ELSE m.sel]

\* docker::Client::validate_container_filters: the text is split at '='
validate_container_filters(f) ==
    LET eqs == {i \in 1..Len(f) : f[i] = "="}
    IN IF eqs = {} THEN TRUE
       ELSE LET first == CHOOSE i \in eqs : \A j \in eqs : i <= j
            IN SubSeq(f, 1, first - 1) \in {<<"i", "d">>}

\* a conversion that keeps the text as it is, whatever it holds
FilterFrom_Verbatim(value) == <<value, <<>>>>

\* impl From<String> for Filter: the map is <<>> when empty, <<key, value>> when it
\* holds one entry; the text is split at its first '=' (split_once), "k=" gives
\* Filter::default().name(k), text without '=' gives Filter::default()
FilterFrom(value) ==
    LET eqs == {i \in 1..Len(value) : value[i] = "="}
    IN IF eqs = {} THEN <<>>
       ELSE LET first == CHOOSE i \in eqs : \A j \in eqs : i <= j
                k == SubSeq(value, 1, first - 1)
                v == SubSeq(value, first + 1, Len(value))
            IN IF v = <<>> THEN <<<<"n", "a", "m", "e">>, k>> ELSE <<k, v>>

\* the match of the SortColumn(n) arm of Containers::update, Images::update,
\* Volumes::update and Networks::update on (n, &self.sort_by)
sort_by(kind, n, cur) ==
    LET cols == IF kind = "Containers" THEN <<"Id", "Name", "Image", "Status", "Age">>
                ELSE IF kind = "Images" THEN <<"Id", "Name", "Size", "Age">>
                ELSE IF kind = "Volumes" THEN <<"Id", "Driver", "Size", "Age">>
                ELSE <<"Id", "Name", "Driver", "Age">>
    IN IF n \notin 1..Len(cols) THEN cur
       ELSE IF cur # <<cols[n], "Asc">> THEN <<cols[n], "Asc">>
       ELSE IF kind = "Networks" /\ n = 2 THEN <<"Age", "Desc">>
       ELSE <<cols[n], "Desc">>

\* the smallest free task slot and buffer, as a set (empty when none is free)
Slot(t, m, q) == {w \in FreeSlots(t, m, q) : \A v \in FreeSlots(t, m, q) : w <= v}

Buf(t, m, q) == {b \in FreeBufs(t, m, q) : \A v \in FreeBufs(t, m, q) : b <= v}

\* the outcomes of sending pre \o <<Screen(Containers::new(..))>>: new spawns the metrics task
SendContainers(m, pre, t, b, q) ==
    {Res(m, pre \o <<ActScreen(NewContainers(w))>>, Spawned(t, w, "metrics", 0), b, "ok") :
        w \in Slot(t, m, q)}

\* Shell sending its two actions in the other order: the fault C9 rules out
ContainersShell_ScreenFirst(cid) == <<ActScreen(NewContainerExec(cid)), Act("Suspend")>>

\* Shell asking for the suspension and for no exec screen: the fault C35 rules out
ContainersShell_SuspendOnly(cid) == <<Act("Suspend")>>

\* what Containers::update sends for Shell, and for Ok with the Shell popup open
ContainersShell(cid) == <<Act("Suspend"), ActScreen(NewContainerExec(cid))>>

\* a failed deletion that reports nothing: the fault C11 rules out
ContainersDeleted_Silent(ok) == <<>>

\* a failed deletion that asks for itself again: the fault C34 rules out
ContainersDeleted_Retries(ok) == IF ok THEN <<>> ELSE <<ActError("docker"), Act("Ok")>>

\* what Containers::update sends for Ok with the Delete popup open
ContainersDeleted(ok) == IF ok THEN <<>> ELSE <<ActError("docker")>>

\* Containers::update
ContainersUpdate(m, a, t, b, q) ==
    IF m.popup = "None" THEN
        IF a.t = "Tick" THEN
            {Res(Refreshed(m, l), <<>>, t, b, "ok") : l \in ListAnswers}
            \cup {Res(Refreshed(m, <<>>), <<ActError("docker")>>, t, b, "ok")}
        ELSE IF a.t = "Down" THEN {Res(next(m), <<>>, t, b, "ok")}
        ELSE IF a.t = "Up" THEN {Res(previous(m), <<>>, t, b, "ok")}
        ELSE IF a.t = "All" THEN {Res([m EXCEPT !.all = ~m.all], <<>>, t, b, "ok")}
        ELSE IF a.t = "SortColumn" THEN
            {Res([m EXCEPT !.sort = sort_by(m.kind, a.n, m.sort)], <<>>, t, b, "ok")}
        ELSE IF a.t = "SetFilter" THEN
            IF a.f # None /\ ~validate_container_filters(a.f[1])
            THEN {Res(m, <<ActError("Invalid filter")>>, t, b, "ok")}
            ELSE {Res([m EXCEPT !.filter = IF a.f = None THEN <<>> ELSE FilterFrom(a.f[1])],
                      <<>>, t, b, "ok")}
        ELSE IF a.t = "Inspect" /\ Selected(m) # 0 THEN
            {Res(m, <<ActScreen(NewDetail("ContainerInspect", Selected(m)))>>, t, b, "ok"),
             Res(m, <<ActError("docker")>>, t, b, "ok")}
        ELSE IF a.t = "Logs" /\ Selected(m) # 0 THEN
            {Res(m, <<ActScreen(NewContainerLogs(Selected(m), w, nb))>>,
                 Spawned(t, w, "logs", nb), [b EXCEPT ![nb] = <<>>], "ok") :
                w \in Slot(t, m, q), nb \in Buf(t, m, q)}
        ELSE IF a.t = "Ok" /\ Selected(m) # 0 THEN
            {Res(m, <<ActScreen(NewDetail("ContainerView", Selected(m)))>>, t, b, "ok")}
        ELSE IF a.t = "Shell" /\ Selected(m) # 0 THEN
            {Res(m, ContainersShell(Selected(m)), t, b, "ok")}
        ELSE IF a.t = "CustomShell" /\ Selected(m) # 0 THEN
            {Res([m EXCEPT !.popup = "Shell", !.pid = Selected(m)], <<>>, t, b, "ok")}
        ELSE IF a.t = "Delete" /\ Selected(m) # 0 THEN
            {Res([m EXCEPT !.popup = "Delete", !.pid = Selected(m)], <<>>, t, b, "ok")}
        ELSE {Res(m, <<>>, t, b, "ok")}
    ELSE IF a.t = "Ok" /\ m.popup = "Delete" THEN
        {Res([m EXCEPT !.popup = "None", !.pid = 0], ContainersDeleted(TRUE), t, b, "ok"),
         Res(m, ContainersDeleted(FALSE), t, b, "ok")}
    ELSE IF a.t = "Ok" /\ m.popup = "Shell" THEN
        {Res(m, ContainersShell(m.pid), t, b, "ok")}
    ELSE IF a.t = "PreviousScreen" THEN
        {Res([m EXCEPT !.popup = "None", !.pid = 0], <<>>, t, b, "ok")}
    ELSE {Res(m, <<>>, t, b, "ok")}

\* a deletion answered with two Ticks: the fault C4 rules out
ListDeleted_TickTwice(kind, ok) == <<Act("Tick"), Act("Tick")>>

\* a failed deletion reported after the Tick: the fault C33 rules out
ListDeleted_ErrorLast(kind, ok) == <<Act("Tick")>> \o (IF ok THEN <<>> ELSE <<ActError("docker")>>)

\* what Images::update, Volumes::update and Networks::update send for Ok with the
\* Delete popup open, and whether they close the popup
ListDeleted(kind, ok) ==
    IF kind = "Images"
    THEN (IF ok THEN <<Act("Tick")>> ELSE <<ActError("docker")>>)
    ELSE (IF ok THEN <<>> ELSE <<ActError("docker")>>) \o <<Act("Tick")>>

\* the detail screen a list component opens on Inspect
InspectKind(kind) ==
    IF kind = "Images" THEN "ImageInspect"
    ELSE IF kind = "Volumes" THEN "VolumeInspect"
    ELSE "NetworkInspect"

\* Images::update, Volumes::update, Networks::update
ListUpdate(m, a, t, b, q) ==
    IF a.t = "Tick" THEN
        {Res(IF m.kind = "Networks" THEN [m EXCEPT !.items = l] ELSE Refreshed(m, l),
             <<>>, t, b, "ok") : l \in ListAnswers}
        \cup (IF m.kind = "Images" THEN {Res(m, <<>>, t, b, "err")}
              ELSE {Res(m, <<ActError("docker")>>, t, b, "ok")})
    ELSE IF a.t = "Down" THEN {Res(next(m), <<>>, t, b, "ok")}
    ELSE IF a.t = "Up" THEN {Res(previous(m), <<>>, t, b, "ok")}
    ELSE IF a.t = "Inspect" /\ Selected(m) # 0 THEN
        {Res(m, <<ActScreen(NewDetail(InspectKind(m.kind), Selected(m)))>>, t, b, "ok"),
         Res(m, <<ActError("docker")>>, t, b, "ok")}
    ELSE IF a.t = "Delete" /\ Selected(m) # 0 THEN
        {Res([m EXCEPT !.popup = "Delete", !.pid = Selected(m)], <<>>, t, b, "ok")}
    ELSE IF a.t = "Ok" /\ m.popup = "Delete" THEN
        {Res(IF m.kind # "Images" \/ ok THEN [m EXCEPT !.popup = "None", !.pid = 0] ELSE m,
             ListDeleted(m.kind, ok), t, b, "ok") : ok \in BOOLEAN}
    ELSE IF a.t = "PreviousScreen" THEN
        {Res([m EXCEPT !.popup = "None", !.pid = 0], <<>>, t, b, "ok")}
    ELSE IF a.t = "SortColumn" THEN
        {Res([m EXCEPT !.sort = sort_by(m.kind, a.n, m.sort)], <<>>, t, b, "ok")}
    ELSE {Res(m, <<>>, t, b, "ok")}

\* Composes::update
ComposesUpdate(m, a, t, b, q) ==
    IF a.t = "Tick" THEN
        {Res(Refreshed(m, l), <<>>, t, b, "ok") : l \in ListAnswers}
        \cup {Res(Refreshed(m, <<>>), <<ActError("docker")>>, t, b, "ok")}
    ELSE IF a.t = "Down" THEN {Res(next(m), <<>>, t, b, "ok")}
    ELSE IF a.t = "Up" THEN {Res(previous(m), <<>>, t, b, "ok")}
    ELSE {Res(m, <<>>, t, b, "ok")}

\* ContainerLogs::update
ContainerLogsUpdate(m, a, t, b, q) ==
    IF a.t = "PreviousScreen" THEN
        SendContainers(m, <<>>, cancel(t, m.task), b, q)
    ELSE IF a.t = "Since" THEN
        LET t1 == cancel(t, m.task)
            b1 == [b EXCEPT ![m.buf] = <<>>]
        IN {Res([m EXCEPT !.task = w, !.since = a.n], <<>>,
                Spawned(t1, w, "logs", m.buf), b1, "ok") : w \in Slot(t1, m, q)}
    ELSE {Res(m, <<>>, t, b, "ok")}

\* ContainerView::update
ContainerViewUpdate(m, a, t, b, q) ==
    IF a.t = "PreviousScreen" THEN SendContainers(m, <<>>, t, b, q)
    ELSE IF a.t = "Tick" THEN
        {Res(m, <<>>, t, b, "ok"), Res(m, <<ActError("docker")>>, t, b, "ok")}
    ELSE {Res(m, <<>>, t, b, "ok")}

\* the list component a detail component goes back to on PreviousScreen
Parent(kind) ==
    IF kind = "ComposeView" THEN "Composes"
    ELSE IF kind = "VolumeInspect" THEN "Volumes"
    ELSE IF kind = "NetworkInspect" THEN "Networks"
    ELSE "Images"

\* ContainerDetails::update, ComposeView::update, VolumeInspect::update,
\* NetworkInspect::update, ImageInspect::update
DetailUpdate(m, a, t, b, q) ==
    IF a.t = "PreviousScreen" THEN
        IF m.kind = "ContainerInspect" THEN SendContainers(m, <<>>, t, b, q)
        ELSE {Res(m, <<ActScreen(NewList(Parent(m.kind)))>>, t, b, "ok")}
    ELSE {Res(m, <<>>, t, b, "ok")}

\* an exec screen that sends no Resume when its session ends: the fault the
\* amended C5 rules out
ContainerExecUpdate_NoResume(m, a, t, b, q) ==
    IF ~m.should_stop THEN SendContainers([m EXCEPT !.should_stop = TRUE], <<>>, t, b, q)
    ELSE {Res(m, <<>>, t, b, "ok")}

\* an exec screen without its should_stop test: every action it gets runs a
\* session, the fault C36 rules out
ContainerExecUpdate_Again(m, a, t, b, q) ==
    SendContainers([m EXCEPT !.should_stop = TRUE], <<Act("Resume")>>, t, b, q)

\* ContainerExec::update: the first action it gets runs the whole exec session
ContainerExecUpdate(m, a, t, b, q) ==
    IF ~m.should_stop THEN
        SendContainers([m EXCEPT !.should_stop = TRUE], <<Act("Resume")>>, t, b, q)
        \cup {Res(m, <<>>, t, b, "panic")}
    ELSE {Res(m, <<>>, t, b, "ok")}

\* Component::update
update(m, a, t, b, q) ==
    IF m.kind = "Containers" THEN ContainersUpdate(m, a, t, b, q)
    ELSE IF m.kind \in {"Images", "Volumes", "Networks"} THEN ListUpdate(m, a, t, b, q)
    ELSE IF m.kind = "Composes" THEN ComposesUpdate(m, a, t, b, q)
    ELSE IF m.kind = "ContainerLogs" THEN ContainerLogsUpdate(m, a, t, b, q)
    ELSE IF m.kind = "ContainerView" THEN ContainerViewUpdate(m, a, t, b, q)
    ELSE IF m.kind = "ContainerExec" THEN ContainerExecUpdate(m, a, t, b, q)
    ELSE DetailUpdate(m, a, t, b, q)

(***************************************************************************)
(* The terminal driver (tui::Tui): whether it owns the terminal            *)
(***************************************************************************)
\* Tui::stop and Tui::suspend
TuiStopped == "stopped"

\* Tui::start, Tui::resume and Tui::new followed by Tui::enter
TuiRunning == "running"

\* an exec screen whose setup hook leaves the terminal driver alone: the fault
\* C17 rules out
setup_Nothing(m, tu) == tu

\* Component::setup: only ContainerExec has one, t.stop()
setup(m, tu) == IF m.kind = "ContainerExec" THEN TuiStopped ELSE tu

\* Component::teardown on the terminal: ContainerExec calls t.start() and t.clear()
teardown_tui(m, tu) == IF m.kind = "ContainerExec" THEN TuiRunning ELSE tu

\* Component::teardown on the tasks: only Containers (and ContainerExec) are delegated to
teardown(m, t) == IF m.kind = "Containers" THEN cancel(t, m.task) ELSE t

\* the Action::Screen arm of App::run: the calls it makes, in the order it makes them
ScreenSteps == <<"register_action_handler", "setup", "teardown", "install">>

\* one call of the arm on st, the terminal driver, the tasks and the active
\* component; new is the clone of the screen the action carries (the sender that
\* register_action_handler stores in it is the one channel of the model)
ScreenStep(step, new, st) ==
    IF step = "setup" THEN [st EXCEPT !.tui = setup(new, st.tui)]
    ELSE IF step = "teardown"
    THEN [st EXCEPT !.tui = teardown_tui(st.main, st.tui), !.tasks = teardown(st.main, st.tasks)]
    ELSE IF step = "install" THEN [st EXCEPT !.main = new]
    ELSE st

RECURSIVE RunScreenSteps(_, _, _)
RunScreenSteps(steps, new, st) ==
    IF steps = <<>> THEN st
    ELSE RunScreenSteps(Tail(steps), new, ScreenStep(Head(steps), new, st))

\* the arm as a whole
ScreenArm(new, st) == RunScreenSteps(ScreenSteps, new, st)

\* the place of a call in the arm
StepAt(step) == CHOOSE i \in 1..Len(ScreenSteps) : ScreenSteps[i] = step

(***************************************************************************)
(* App                                                                     *)
(***************************************************************************)
PopupNone == [k |-> "None", msg |-> "", timeout |-> 0, ttl |-> 0]
PopupError(msg) ==
    [k |-> "Error", msg |-> msg, timeout |-> DEFAULT_TOAST_DELAY, ttl |-> DEFAULT_TOAST_DELAY]

\* a countdown that stops at 0 and leaves the popup on display
TickPopup_NeverDismisses(p) ==
    IF p.k = "Error" THEN [p EXCEPT !.ttl = saturating_sub(p.ttl, 1)] ELSE p

\* a countdown that dismisses the popup on the Tick that brings ttl to 0
TickPopup_DismissAtZero(p) ==
    IF p.k = "Error"
    THEN (IF p.ttl > 1 THEN [p EXCEPT !.ttl = p.ttl - 1] ELSE PopupNone)
    ELSE p

\* the Action::Tick arm of App::run
TickPopup(p) ==
    IF p.k = "Error"
    THEN (IF p.ttl > 0 THEN [p EXCEPT !.ttl = saturating_sub(p.ttl, 1)] ELSE PopupNone)
    ELSE p

\* the arms of App::run that set show_popup
AppPopup(a, p) ==
    IF a.t = "Tick" THEN TickPopup(p)
    ELSE IF a.t = "Help" THEN [PopupNone EXCEPT !.k = "Help"]
    ELSE IF a.t = "PreviousScreen" THEN PopupNone
    ELSE IF a.t = "Error" THEN PopupError(a.msg)
    ELSE p

\* the arms of App::run that touch the line editor
AppEditor(a, e) ==
    IF a.t = "Change" THEN [e EXCEPT !.input_mode = "Change"]
    ELSE IF a.t = "Filter" THEN [e EXCEPT !.input_mode = "Filter"]
    ELSE IF a.t = "PreviousScreen" /\ e.input_mode = "Change" THEN reset_input(e)
    ELSE e

\* forwarding decided on the mode the action found, not the one it left: the
\* fault C14 rules out
Forwarded_ModeBefore(a, e) == input_mode = "None"

\* `if let InputMode::None = self.input_mode`: the action goes on to main.update
Forwarded(a, e) == e.input_mode = "None"

\* a drain that stops after the first action: the fault C3 rules out
DrainDone_AfterOne == queue = <<>> \/ Len(done) >= 1

\* `while let Ok(action) = action_rx.try_recv()` has come to its end
DrainDone == queue = <<>>

\* the editor fields of App
Editor ==
    [input |-> input, cursor_position |-> cursor_position, input_mode |-> input_mode,
     suggestion |-> suggestion]

SetEditor(e) ==
    /\ input' = e.input
    /\ cursor_position' = e.cursor_position
    /\ input_mode' = e.input_mode
    /\ suggestion' = e.suggestion

\* action_tx.send of the actions out
Send(out) ==
    /\ queue' = queue \o out
    /\ sent' = sent \o Tags(out)

\* tui.next() yields Event::Tick, Event::Render or Event::Resize
Event(t) ==
    /\ pc = "await"
    /\ t \in {"Tick", "Render", "Resize"}
    /\ Send(<<Act(t)>>)
    /\ pc' = "drain"
    /\ UNCHANGED <<locks, should_quit, should_suspend, input, input_mode, cursor_position,
                   suggestion, show_popup, main, tui, tasks, bufs, done>>

\* App::submit_input: the editor it leaves, the actions it sends and the task
\* table after the Component it may have built
submit_input(e, t, m, q) ==
    IF e.input_mode = "Filter"
    THEN {[e |-> reset_input(e), tasks |-> t,
           out |-> <<[t |-> "SetFilter",
                     f |-> IF e.input = <<>> THEN None ELSE Some(e.input)]>>]}
    ELSE IF SubmitKind(e.suggestion) = ""
    THEN {[e |-> e, tasks |-> t, out |-> <<ActError("No resource found")>>]}
    ELSE IF SubmitKind(e.suggestion) = "Containers"
    THEN {[e |-> reset_input(e), tasks |-> Spawned(t, w, "metrics", 0),
           out |-> <<ActScreen(NewContainers(w))>>] : w \in Slot(t, m, q)}
    ELSE {[e |-> reset_input(e), tasks |-> t,
           out |-> <<ActScreen(NewList(SubmitKind(e.suggestion)))>>]}

\* App::handle_input, KeyCode::Enter while InputMode is Change or Filter
SubmitInput ==
    /\ pc = "await"
    /\ input_mode # "None"
    /\ \E r \in submit_input(Editor, tasks, main, queue) :
          /\ SetEditor(r.e)
          /\ Send(r.out)
          /\ tasks' = r.tasks
    /\ pc' = "drain"
    /\ UNCHANGED <<locks, should_quit, should_suspend, show_popup, main, tui, bufs, done>>

\* App::handle_input, KeyCode::Char(ch): App::enter_char, then update_suggestion
EnterChar(ch) ==
    /\ pc = "await"
    /\ input_mode # "None"
    /\ ~enter_char_panics(Editor)
    /\ Len(input) < MaxInput
    /\ LET e1 == enter_char(Editor, ch)
       IN SetEditor([e1 EXCEPT !.suggestion = update_suggestion(e1.input)])
    /\ pc' = "drain"
    /\ UNCHANGED <<locks, queue, sent, tasks, should_quit, should_suspend, show_popup, main, tui,
                   bufs, done>>

\* App::enter_char when String::insert panics: the cursor is inside a character
EnterCharPanics ==
    /\ pc = "await"
    /\ input_mode # "None"
    /\ enter_char_panics(Editor)
    /\ pc' = "panicked"
    /\ UNCHANGED <<locks, queue, sent, tasks, input, input_mode, cursor_position, suggestion,
                   should_quit, should_suspend, show_popup, main, tui, bufs, done>>

\* App::handle_input, the other keys it matches: Backspace, Left, Right and Esc
EditKey(k) ==
    /\ pc = "await"
    /\ input_mode # "None"
    /\ k.code \in {"Backspace", "Left", "Right", "Esc"}
    /\ SetEditor(IF k.code = "Backspace" THEN delete_char(Editor)
                 ELSE IF k.code = "Left" THEN move_cursor_left(Editor)
                 ELSE IF k.code = "Right" THEN move_cursor_right(Editor)
                 ELSE [Editor EXCEPT !.input = <<>>, !.input_mode = "None",
                                     !.cursor_position = 0])
    /\ pc' = "drain"
    /\ UNCHANGED <<locks, queue, sent, tasks, should_quit, should_suspend, show_popup, main, tui,
                   bufs, done>>

\* Containers::handle_input: the keys the custom-shell popup takes for itself
ShellPopupTakes(m, k) ==
    m.kind = "Containers" /\ m.popup = "Shell"
    /\ k.code \in {"Char", "Backspace", "Left", "Right", "Esc"}

\* what a key does while InputMode is None: Component::handle_input, then
\* App::handle_key with the Component a key binding may build
key_outcomes(m, popup, k, t, q) ==
    IF ShellPopupTakes(m, k)
    THEN {[m |-> IF k.code = "Esc" THEN [m EXCEPT !.popup = "None", !.pid = 0] ELSE m,
           tasks |-> t, out |-> <<>>]}
    ELSE IF popup.k = "None" /\ BindsContainers(m, k)
    THEN {[m |-> m, tasks |-> Spawned(t, w, "metrics", 0),
           out |-> <<ActScreen([NewContainers(w) EXCEPT
                        !.filter = <<IF m.kind = "Images" THEN <<"a", "n", "c", "e", "s", "t", "o", "r">>
                                     ELSE <<"l", "a", "b", "e", "l">>,
                                     <<ToString(Selected(m))>>>>])>>] : w \in Slot(t, m, q)}
    ELSE {[m |-> m, tasks |-> t, out |-> handle_key(m, popup, k)]}

\* a key event while InputMode is None
KeyScreen(k) ==
    /\ pc = "await"
    /\ input_mode = "None"
    /\ \E r \in key_outcomes(main, show_popup, k, tasks, queue) :
          /\ main' = r.m
          /\ tasks' = r.tasks
          /\ Send(r.out)
    /\ pc' = "drain"
    /\ UNCHANGED <<locks, should_quit, should_suspend, input, input_mode, cursor_position,
                   suggestion, show_popup, tui, bufs, done>>

\* the Render and Resize arms of App::run call App::draw, which calls the draw of
\* the active component: Containers::draw and ContainerLogs::draw take the Mutex
\* with block_on(..lock()), which parks the thread of App::run while a task holds it
DrawWaits ==
    /\ pc = "drain"
    /\ queue # <<>>
    /\ Head(queue).t \in {"Render", "Resize"}
    /\ MainLock(main) # 0
    /\ locks[MainLock(main)] # 0

\* one turn of `while let Ok(action) = action_rx.try_recv()`: the match on the
\* action, then main.update when InputMode is None
Dispatch ==
    /\ pc = "drain"
    /\ ~DrainDone
    /\ ~DrawWaits
    /\ LET a == Head(queue)
           rest == Tail(queue)
           e1 == AppEditor(a, Editor)
           st0 == [main |-> main, tui |-> tui, tasks |-> tasks]
           st1 == IF a.t = "Screen" THEN ScreenArm(a.s, st0) ELSE st0
           m1 == st1.main
           t1 == st1.tasks
           tu1 == IF a.t = "Resume" THEN TuiRunning ELSE st1.tui
       IN /\ should_quit' = (should_quit \/ a.t = "Quit")
          /\ should_suspend' = IF a.t = "Suspend" THEN TRUE
                               ELSE IF a.t = "Resume" THEN FALSE
                               ELSE should_suspend
          /\ show_popup' = AppPopup(a, show_popup)
          /\ SetEditor(e1)
          /\ tui' = tu1
          /\ done' = Append(done, [a |-> Tag(a), fwd |-> Forwarded(a, e1)])
          /\ UNCHANGED locks
          /\ IF Forwarded(a, e1)
             THEN \E r \in update(m1, a, t1, bufs, rest) :
                     /\ main' = r.m
                     /\ tasks' = Reclaim(r.tasks, r.m, rest \o r.out)
                     /\ bufs' = ReclaimBufs(r.bufs, r.m, rest \o r.out)
                     /\ queue' = rest \o r.out
                     /\ sent' = sent \o Tags(r.out)
                     /\ pc' = IF r.end = "ok" THEN "drain"
                              ELSE IF r.end = "err" THEN "failed" ELSE "panicked"
             ELSE /\ main' = m1
                  /\ tasks' = Reclaim(t1, m1, rest)
                  /\ bufs' = ReclaimBufs(bufs, m1, rest)
                  /\ queue' = rest
                  /\ UNCHANGED <<sent, pc>>

\* a loop that goes back to wait for the next event whatever the quit flag says
EndDrain_NeverBreaks ==
    /\ pc = "drain"
    /\ DrainDone
    /\ pc' = "await"
    /\ sent' = <<>>
    /\ done' = <<>>
    /\ UNCHANGED <<locks, queue, should_quit, should_suspend, input, input_mode,
                   cursor_position, suggestion, show_popup, main, tui, tasks, bufs>>

\* the end of one loop iteration of App::run, after the drain
EndDrain ==
    /\ pc = "drain"
    /\ DrainDone
    /\ IF should_suspend
       THEN /\ tui' = TuiRunning
            /\ queue' = <<Act("Resume")>>
            /\ sent' = <<Tag(Act("Resume"))>>
            /\ pc' = "await"
       ELSE /\ pc' = IF should_quit THEN "done" ELSE "await"
            /\ tui' = IF should_quit THEN TuiStopped ELSE tui
            /\ sent' = <<>>
            /\ UNCHANGED queue
    /\ done' = <<>>
    /\ UNCHANGED <<locks, should_quit, should_suspend, input, input_mode, cursor_position,
                   suggestion, show_popup, main, tasks, bufs>>

(***************************************************************************)
(* The background tasks: run_setup_task of containers.rs (metrics) and of  *)
(* container_logs.rs (log follower), as the tokio runtime runs them        *)
(***************************************************************************)
\* a Component value still holds the buffer, so its content can be drawn
Observed(b) == b \in BufRefs(main, queue)

HasRoom(b) == IF b = 0 \/ ~Observed(b) THEN TRUE ELSE Len(bufs[b]) < MaxLog

\* the follower's get_container_logs(..).await? gives the stream or an Err
TaskOpen(w) ==
    /\ tasks[w].st = "start"
    /\ ~tasks[w].aborted
    /\ \E st \in {"idle", "done"} :
          tasks' = Reclaim([tasks EXCEPT ![w].st = st], main, queue)
    /\ UNCHANGED <<locks, pc, queue, should_quit, should_suspend, input, input_mode, cursor_position,
                   suggestion, show_popup, main, tui, bufs, sent, done>>

\* the log stream yields an item and a worker thread polls the follower (the
\* statistics map the metrics task fills is not part of the state, so its polls
\* are not steps)
TaskWake(w) ==
    /\ tasks[w].st = "idle"
    /\ tasks[w].kind = "logs"
    /\ HasRoom(tasks[w].buf)
    /\ tasks' = [tasks EXCEPT ![w].st = "busy"]
    /\ UNCHANGED <<locks, pc, queue, should_quit, should_suspend, input, input_mode, cursor_position,
                   suggestion, show_popup, main, tui, bufs, sent, done>>

\* where the follower is after it pushed a line: with the next stream item at
\* once, else parked at the select! again, or ended when it was cancelled meanwhile
AfterWrite(tk) == {"busy"} \cup (IF tk.cancelled \/ tk.aborted THEN {"done"} ELSE {"idle"})

\* the task takes the lock of its buffer and writes
TaskWrite(w) ==
    /\ tasks[w].st = "busy"
    /\ HasRoom(tasks[w].buf)
    /\ LET b == tasks[w].buf
       IN bufs' = IF b # 0 /\ Observed(b) THEN [bufs EXCEPT ![b] = Append(@, w)] ELSE bufs
    /\ \E st \in AfterWrite(tasks[w]) :
          tasks' = Reclaim([tasks EXCEPT ![w].st = st], main, queue)
    /\ UNCHANGED <<locks, pc, queue, should_quit, should_suspend, input, input_mode, cursor_position,
                   suggestion, show_popup, main, tui, sent, done>>

(***************************************************************************)
(* The specification                                                       *)
(***************************************************************************)
\* the keys pressed while a screen has the keyboard
Keys ==
    {Key("Enter"), Key("Esc"), KeyCtrl("d")}
    \cup {KeyChar(ch) : ch \in {"q", ":", "?", "i", "l", "s", "c", "1"}}

\* the characters typed into the line editor
Typed == {"i", "v"}

\* App::new and the start of App::run: the container list is the first component
Init ==
    /\ pc = "await"
    /\ locks = NoLocks
    /\ queue = <<>>
    /\ should_quit = FALSE
    /\ should_suspend = FALSE
    /\ input = <<>>
    /\ input_mode = "None"
    /\ cursor_position = 0
    /\ suggestion = None
    /\ show_popup = PopupNone
    /\ main = NewContainers(1)
    /\ tui = TuiRunning
    /\ tasks = Spawned([w \in 1..MaxTasks |-> FreeTask], 1, "metrics", 0)
    /\ bufs = [b \in 1..MaxTasks |-> <<>>]
    /\ sent = <<>>
    /\ done = <<>>

Next ==
    \/ \E t \in {"Tick", "Render", "Resize"} : Event(t)
    \/ SubmitInput
    \/ \E ch \in Typed : EnterChar(ch)
    \/ EditKey(Key("Esc"))
    \/ \E k \in Keys : KeyScreen(k)
    \/ Dispatch
    \/ EndDrain
    \/ \E w \in 1..MaxTasks : TaskOpen(w)
    \/ \E w \in 1..MaxTasks : TaskWake(w)
    \/ \E w \in 1..MaxTasks : TaskWrite(w)

Spec == Init /\ [][Next]_vars

(***************************************************************************)
(* The line editor on its own: the keys App::handle_input takes, pressed   *)
(* from the moment ':' or '/' has opened the editor on the first screen    *)
(***************************************************************************)
InitEdit ==
    /\ pc = "await"
    /\ locks = NoLocks
    /\ queue = <<>>
    /\ should_quit = FALSE
    /\ should_suspend = FALSE
    /\ input = <<>>
    /\ input_mode \in {"Change", "Filter"}
    /\ cursor_position = 0
    /\ suggestion = None
    /\ show_popup = PopupNone
    /\ main = NewContainers(1)
    /\ tui = TuiRunning
    /\ tasks = Spawned([w \in 1..MaxTasks |-> FreeTask], 1, "metrics", 0)
    /\ bufs = [b \in 1..MaxTasks |-> <<>>]
    /\ sent = <<>>
    /\ done = <<>>

\* the characters typed: "E" stands for a character of two bytes, such as 'é'
NextEdit ==
    \/ \E ch \in {"c", "E"} : EnterChar(ch)
    \/ EnterCharPanics
    \/ \E k \in {Key("Backspace"), Key("Left"), Key("Right"), Key("Esc")} : EditKey(k)
    \/ SubmitInput
    \/ Dispatch
    \/ EndDrain

SpecEdit == InitEdit /\ [][NextEdit]_vars

(***************************************************************************)
(* cancel on its own: a component that owns a background task, in any      *)
(* state the task can be in, is cancelled up to MaxCancels times, through  *)
(* the component or a clone of it, while the task runs on                  *)
(***************************************************************************)
\* the task table with the one task of a component in slot w
OneTask(w, kind, st, b) ==
    [Spawned([v \in 1..MaxTasks |-> FreeTask], w, kind, b) EXCEPT ![w].st = st]

\* the buffers with the lines l in buffer b
OneBuf(b, l) == [i \in 1..MaxTasks |-> IF i = b THEN l ELSE <<>>]

\* a component with its task in some slot, and the states the task can be found in
InitCancel ==
    /\ pc = "await"
    /\ locks = NoLocks
    /\ queue = <<>>
    /\ should_quit = FALSE
    /\ should_suspend = FALSE
    /\ input = <<>>
    /\ input_mode = "None"
    /\ cursor_position = 0
    /\ suggestion = None
    /\ show_popup = PopupNone
    /\ tui = TuiRunning
    /\ sent = <<>>
    /\ done = <<>>
    /\ \E w \in 1..MaxTasks :
          \/ /\ \E l \in ListAnswers : main = Refreshed(NewContainers(w), l)
             /\ tasks = OneTask(w, "metrics", "idle", 0)
             /\ bufs = OneBuf(0, <<>>)
          \/ \E cid \in 1..MaxItems, b \in 1..MaxTasks :
                /\ main = NewContainerLogs(cid, w, b)
                /\ \/ /\ \E st \in {"start", "idle", "busy", "done"} :
                            tasks = OneTask(w, "logs", st, b)
                      /\ bufs = OneBuf(b, <<>>)
                   \/ /\ \E st \in {"idle", "busy"} : tasks = OneTask(w, "logs", st, b)
                      /\ bufs = OneBuf(b, <<w>>)

\* Containers::cancel or ContainerLogs::cancel called on the component c
Cancel(c) ==
    /\ pc = "await"
    /\ Len(done) < MaxCancels
    /\ tasks' = cancel(tasks, c.task)
    /\ done' = Append(done, [a |-> <<"cancel">>, fwd |-> FALSE])
    /\ UNCHANGED <<locks, pc, queue, should_quit, should_suspend, input, input_mode, cursor_position,
                   suggestion, show_popup, main, tui, bufs, sent>>

NextCancel ==
    \/ Cancel(main)
    \/ \E w \in 1..MaxTasks : TaskOpen(w)
    \/ \E w \in 1..MaxTasks : TaskWake(w)
    \/ \E w \in 1..MaxTasks : TaskWrite(w)

SpecCancel == InitCancel /\ [][NextCancel]_vars

(***************************************************************************)
(* The input modes on their own: ':' and '/' open the line editor on the    *)
(* list screens, terminal events go on arriving while it is open            *)
(***************************************************************************)
NextMode ==
    \/ \E t \in {"Tick", "Render", "Resize"} : Event(t)
    \/ SubmitInput
    \/ \E ch \in Typed : EnterChar(ch)
    \/ EditKey(Key("Esc"))
    \/ \E k \in {KeyChar(":"), KeyChar("/"), Key("Esc"), Key("Enter")} : KeyScreen(k)
    \/ Dispatch
    \/ EndDrain

SpecMode == Init /\ [][NextMode]_vars

(***************************************************************************)
(* The popups and the key bindings on their own: keys the container list   *)
(* binds, keys only the keymap of App::handle_key knows, and the keys that *)
(* open and close the line editor, the popups of the App and the popups of *)
(* the list, while terminal events go on arriving                          *)
(***************************************************************************)
KeysBound ==
    {Key("Enter"), Key("Esc"), Key("Down"), KeyCtrl("d")}
    \cup {KeyChar(ch) : ch \in {"l", "S", "?", ":", "q"}}

NextToast ==
    \/ \E t \in {"Tick", "Render", "Resize"} : Event(t)
    \/ SubmitInput
    \/ \E ch \in Typed : EnterChar(ch)
    \/ EditKey(Key("Esc"))
    \/ \E k \in KeysBound : KeyScreen(k)
    \/ Dispatch
    \/ EndDrain

SpecToast == Init /\ [][NextToast]_vars

\* the tick interval of the terminal driver goes on delivering Tick events, and
\* run() goes on with its drain whenever it has something to do
SpecToastFair ==
    /\ Init
    /\ [][NextToast]_vars
    /\ SF_vars(Event("Tick")) /\ WF_vars(Dispatch) /\ WF_vars(EndDrain)

(***************************************************************************)
(* The way out of App::run: 'q' pressed on the list screens and on the      *)
(* screens opened from them, the shell among them, with run() going on     *)
(* with its drain whenever it has something to do                          *)
(***************************************************************************)
NextQuit ==
    \/ \E t \in {"Tick", "Render", "Resize"} : Event(t)
    \/ \E k \in {KeyChar("q"), KeyChar("s"), KeyChar("l"), Key("Esc")} : KeyScreen(k)
    \/ Dispatch
    \/ EndDrain

SpecQuit == Init /\ [][NextQuit]_vars /\ WF_vars(Dispatch) /\ WF_vars(EndDrain)

(***************************************************************************)
(* The filter of the container list on its own: a text of up to MaxFilter  *)
(* characters has been typed in Filter mode, with the Delete popup of the  *)
(* list open or not, and Enter is pressed                                  *)
(***************************************************************************)
InitFilter ==
    /\ pc = "await"
    /\ locks = NoLocks
    /\ queue = <<>>
    /\ should_quit = FALSE
    /\ should_suspend = FALSE
    /\ input \in UNION {[1..n -> {"i", "d", "=", "v"}] : n \in 0..MaxFilter}
    /\ input_mode = "Filter"
    /\ cursor_position = len(input)
    /\ suggestion = IF input = <<>> THEN None ELSE update_suggestion(input)
    /\ show_popup = PopupNone
    /\ \E l \in ListAnswers, f \in {<<>>, <<<<"i", "d">>, <<"d">>>>}, open \in BOOLEAN :
          LET m == [Refreshed(NewContainers(1), l) EXCEPT !.filter = f]
          IN main = IF open /\ Selected(m) # 0
                    THEN [m EXCEPT !.popup = "Delete", !.pid = Selected(m)] ELSE m
    /\ tui = TuiRunning
    /\ tasks = Spawned([w \in 1..MaxTasks |-> FreeTask], 1, "metrics", 0)
    /\ bufs = [b \in 1..MaxTasks |-> <<>>]
    /\ sent = <<>>
    /\ done = <<>>

NextFilter ==
    \/ SubmitInput
    \/ \E ch \in {"=", "d"} : EnterChar(ch)
    \/ KeyScreen(KeyChar("/"))
    \/ Dispatch
    \/ EndDrain

SpecFilter == InitFilter /\ [][NextFilter]_vars

(***************************************************************************)
(* The list screens on their own: each of the five list components, fresh  *)
(* from its constructor, with the keys that move the selection, sort,      *)
(* filter, delete and open the popups and the screens of the rows          *)
(***************************************************************************)
InitList ==
    /\ pc = "await"
    /\ locks = NoLocks
    /\ queue = <<>>
    /\ should_quit = FALSE
    /\ should_suspend = FALSE
    /\ input = <<>>
    /\ input_mode = "None"
    /\ cursor_position = 0
    /\ suggestion = None
    /\ show_popup = PopupNone
    /\ \/ /\ main = NewContainers(1)
          /\ tasks = Spawned([w \in 1..MaxTasks |-> FreeTask], 1, "metrics", 0)
       \/ /\ main \in {NewList(kind) : kind \in {"Images", "Volumes", "Networks", "Composes"}}
          /\ tasks = [w \in 1..MaxTasks |-> FreeTask]
    /\ tui = TuiRunning
    /\ bufs = [b \in 1..MaxTasks |-> <<>>]
    /\ sent = <<>>
    /\ done = <<>>

NextList ==
    \/ Event("Tick")
    \/ SubmitInput
    \/ \E k \in {Key("Down"), Key("Up"), Key("Enter"), Key("Esc"), KeyCtrl("d"),
                KeyF(1), KeyF(2), KeyF(6)}
               \cup {KeyChar(ch) : ch \in {"a", "i", "l", "s", "S", "/"}} : KeyScreen(k)
    \/ Dispatch
    \/ EndDrain

SpecList == InitList /\ [][NextList]_vars

\* the loop of App::run is one thread that nothing preempts for good: a turn of
\* the drain that can be taken is taken, and so is the end of the iteration
SpecListFair == SpecList /\ WF_vars(Dispatch) /\ WF_vars(EndDrain)

(***************************************************************************)
(* The exec session on its own: ContainerExec::update from its first line  *)
(* to its last, await by await, with the task that copies stdin.  pc is    *)
(* the place of the call inside update; while the session runs, the task   *)
(* field of the exec screen stands for the local `handle`, its buf field   *)
(* for the remote input channel `input` and its items field for the chunks *)
(* of remote output written to stdout.                                     *)
(***************************************************************************)
ExecPcs == {"exec_create", "exec_start", "exec_resize", "exec_copy", "exec_join"}

\* spec section 1, Terminal Driver: a driver that was stopped or suspended and not
\* started, resumed or entered since reads no input event (Tui::stop has no body
\* in this source tree)
TuiReadsInput(tu) == tu = TuiRunning

\* a join that does not wait for the task: the fault C19 rules out
Joined_NoWait(t, w) == TRUE

\* handle.await has the result of the stdin task
Joined(t, w) == t[w].st = "done"

\* an exec screen that returns from update once the stdin task is spawned, leaving
\* the copying to the background: the fault C18 rules out
AfterSpawn_Returns == "drain"

\* where update goes on after spawn(..): the cursor calls, then resize_exec
AfterSpawn == "exec_resize"

\* the Screen(ContainerExec) action of Shell has been taken off the channel, the
\* Action::Screen arm has run and main.update is entered
InitExec ==
    /\ pc = "exec_create"
    /\ locks = NoLocks
    /\ queue = <<>>
    /\ should_quit = FALSE
    /\ should_suspend = TRUE
    /\ input = <<>>
    /\ input_mode = "None"
    /\ cursor_position = 0
    /\ suggestion = None
    /\ show_popup = PopupNone
    /\ bufs = [b \in 1..MaxTasks |-> <<>>]
    /\ sent = <<<<"Tick">>, <<"Shell">>, <<"Suspend">>, <<"Screen", "ContainerExec">>>>
    /\ done = [i \in 1..4 |-> [a |-> sent[i], fwd |-> TRUE]]
    /\ \E l \in ListAnswers \ {<<>>} : \E sel \in 0..(Len(l) - 1) :
          LET old == [Refreshed(NewContainers(1), l) EXCEPT !.sel = sel]
              st == ScreenArm(NewContainerExec(Selected(old)),
                              [main |-> old, tui |-> TuiRunning,
                               tasks |-> OneTask(1, "metrics", "idle", 0)])
          IN /\ main = st.main
             /\ tui = st.tui
             /\ tasks = Reclaim(st.tasks, st.main, <<>>)

\* docker.create_exec(..).await.expect("Unable to create exec")
ExecCreate ==
    /\ pc = "exec_create"
    /\ pc' \in {"exec_start", "panicked"}
    /\ UNCHANGED <<locks, queue, should_quit, should_suspend, input, input_mode, cursor_position,
                   suggestion, show_popup, main, tui, tasks, bufs, sent, done>>

\* docker.start_exec(..).await.expect(..), then spawn of the task that copies stdin
ExecStart ==
    /\ pc = "exec_start"
    /\ \/ /\ pc' = "panicked"
          /\ UNCHANGED <<main, tasks>>
       \/ \E w \in Slot(tasks, main, queue), b \in Buf(tasks, main, queue) :
             /\ tasks' = Spawned(tasks, w, "stdin", b)
             /\ main' = [main EXCEPT !.task = w, !.buf = b]
             /\ pc' = AfterSpawn
    /\ UNCHANGED <<locks, queue, should_quit, should_suspend, input, input_mode, cursor_position,
                   suggestion, show_popup, tui, bufs, sent, done>>

\* docker.resize_exec(..).await.expect("Unable to resize exec")
ExecResize ==
    /\ pc = "exec_resize"
    /\ pc' \in {"exec_copy", "panicked"}
    /\ UNCHANGED <<locks, queue, should_quit, should_suspend, input, input_mode, cursor_position,
                   suggestion, show_popup, main, tui, tasks, bufs, sent, done>>

\* output.next().await yields Some(Ok(chunk)): it is written to stdout
ExecOutput ==
    /\ pc = "exec_copy"
    /\ Len(main.items) < MaxItems
    /\ main' = [main EXCEPT !.items = Append(@, Len(@) + 1)]
    /\ UNCHANGED <<locks, pc, queue, should_quit, should_suspend, input, input_mode, cursor_position,
                   suggestion, show_popup, tui, tasks, bufs, sent, done>>

\* output.next().await yields None or an Err: tx.send(0) tells the stdin task to stop
ExecOutputEnd ==
    /\ pc = "exec_copy"
    /\ tasks' = [tasks EXCEPT ![main.task].cancelled = TRUE]
    /\ pc' = "exec_join"
    /\ UNCHANGED <<locks, queue, should_quit, should_suspend, input, input_mode, cursor_position,
                   suggestion, show_popup, main, tui, bufs, sent, done>>

\* the stdin task at its select!: the branch of stdin.read is taken (select! polls
\* its branches in random order, so it may be taken after the stop was sent too)
StdinRead(w) ==
    /\ tasks[w].kind = "stdin"
    /\ tasks[w].st = "idle"
    /\ Len(bufs[tasks[w].buf]) < MaxLog
    /\ tasks' = [tasks EXCEPT ![w].st = "busy"]
    /\ UNCHANGED <<locks, pc, queue, should_quit, should_suspend, input, input_mode, cursor_position,
                   suggestion, show_popup, main, tui, bufs, sent, done>>

\* input.write(&buf).await.ok(): the byte goes to the remote channel
StdinWrite(w) ==
    /\ tasks[w].kind = "stdin"
    /\ tasks[w].st = "busy"
    /\ bufs' = [bufs EXCEPT ![tasks[w].buf] = Append(@, w)]
    /\ tasks' = [tasks EXCEPT ![w].st = "idle"]
    /\ UNCHANGED <<locks, pc, queue, should_quit, should_suspend, input, input_mode, cursor_position,
                   suggestion, show_popup, main, tui, sent, done>>

\* the stdin task at its select!: the branch of rx is taken, the loop ends
StdinStop(w) ==
    /\ tasks[w].kind = "stdin"
    /\ tasks[w].st = "idle"
    /\ tasks[w].cancelled
    /\ tasks' = [tasks EXCEPT ![w].st = "done"]
    /\ UNCHANGED <<locks, pc, queue, should_quit, should_suspend, input, input_mode, cursor_position,
                   suggestion, show_popup, main, tui, bufs, sent, done>>

\* handle.await returns, block_on returns; should_stop = true, Resume and the
\* screen of the container list are sent and update returns to the drain loop
ExecEnd ==
    /\ pc = "exec_join"
    /\ Joined(tasks, main.task)
    /\ LET m1 == [main EXCEPT !.should_stop = TRUE, !.task = 0, !.buf = 0, !.items = <<>>]
       IN \E r \in SendContainers(m1, <<Act("Resume")>>, tasks, bufs, queue) :
             /\ main' = r.m
             /\ Send(r.out)
             /\ tasks' = Reclaim(r.tasks, r.m, queue \o r.out)
             /\ bufs' = ReclaimBufs(r.bufs, r.m, queue \o r.out)
    /\ pc' = "drain"
    /\ UNCHANGED <<locks, should_quit, should_suspend, input, input_mode, cursor_position,
                   suggestion, show_popup, tui, done>>

NextExec ==
    \/ ExecCreate
    \/ ExecStart
    \/ ExecResize
    \/ ExecOutput
    \/ ExecOutputEnd
    \/ \E w \in 1..MaxTasks : StdinRead(w)
    \/ \E w \in 1..MaxTasks : StdinWrite(w)
    \/ \E w \in 1..MaxTasks : StdinStop(w)
    \/ ExecEnd
    \/ Dispatch
    \/ EndDrain
    \/ \E t \in {"Tick", "Render", "Resize"} : Event(t)

SpecExec == InitExec /\ [][NextExec]_vars

(***************************************************************************)
(* The background tasks and the Mutex they share with draw: the write of   *)
(* TaskWrite step by step (lock, push, drop of the guard), the statistics  *)
(* of the metrics task, and the end of a log stream                        *)
(***************************************************************************)
\* update_metrics has its statistics (list_containers and the stats futures are
\* done) and a worker thread polls it on to metrics.lock()
MetricsReady(w) ==
    /\ tasks[w].kind = "metrics"
    /\ tasks[w].st = "idle"
    /\ tasks' = [tasks EXCEPT ![w].st = "busy"]
    /\ UNCHANGED <<locks, pc, queue, should_quit, should_suspend, input, input_mode,
                   cursor_position, suggestion, show_popup, main, tui, bufs, sent, done>>

\* logs.lock().await, metrics.lock().await: the task gets the Mutex when it is free
TaskLock(w) ==
    /\ tasks[w].st = "busy"
    /\ locks[LockOf(tasks, w)] = 0
    /\ locks' = [locks EXCEPT ![LockOf(tasks, w)] = w]
    /\ tasks' = [tasks EXCEPT ![w].st = "push"]
    /\ UNCHANGED <<pc, queue, should_quit, should_suspend, input, input_mode,
                   cursor_position, suggestion, show_popup, main, tui, bufs, sent, done>>

\* a task that goes on to its next unit of work whatever its token says: the
\* fault C24 rules out
AfterPush_KeepsOn(tk) == {"busy"}

\* where a task is after it dropped the guard: the follower as after any write,
\* the metrics task at its sleep of one second, or ended when cancelled meanwhile
AfterPush(tk) == IF tk.kind = "logs" THEN AfterWrite(tk) ELSE AfterWrite(tk) \ {"busy"}

\* w_logs.push(..) or the inserts into the map, then the guard is dropped (a line
\* beyond the MaxLog the model keeps of a buffer is not kept)
TaskUnlock(w) ==
    /\ tasks[w].st = "push"
    /\ LET b == tasks[w].buf
       IN bufs' = IF b # 0 /\ Observed(b) /\ Len(bufs[b]) < MaxLog
                  THEN [bufs EXCEPT ![b] = Append(@, w)]
                  ELSE bufs
    /\ locks' = release(locks, LockOf(tasks, w))
    /\ \E st \in AfterPush(tasks[w]) :
          tasks' = Reclaim([tasks EXCEPT ![w].st = st], main, queue)
    /\ UNCHANGED <<pc, queue, should_quit, should_suspend, input, input_mode,
                   cursor_position, suggestion, show_popup, main, tui, sent, done>>

\* the follower takes stream.next() == None for an item: the log stream has ended
\* (`if let Some(Ok(log)) = l` does nothing, should_stop stays false)
StreamEnd(w) ==
    /\ tasks[w].kind = "logs"
    /\ tasks[w].st = "idle"
    /\ tasks' = [tasks EXCEPT ![w].st = "spin"]
    /\ UNCHANGED <<locks, pc, queue, should_quit, should_suspend, input, input_mode,
                   cursor_position, suggestion, show_popup, main, tui, bufs, sent, done>>

\* the follower of an ended stream takes the branch of cancel.cancelled()
SpinStop(w) ==
    /\ tasks[w].st = "spin"
    /\ tasks[w].cancelled
    /\ tasks' = Reclaim([tasks EXCEPT ![w].st = "done"], main, queue)
    /\ UNCHANGED <<locks, pc, queue, should_quit, should_suspend, input, input_mode,
                   cursor_position, suggestion, show_popup, main, tui, bufs, sent, done>>

\* the keys open and leave the log screen and restart its follower
NextLock ==
    \/ \E t \in {"Tick", "Render", "Resize"} : Event(t)
    \/ \E k \in {KeyChar("l"), Key("Esc"), KeyChar("1")} : KeyScreen(k)
    \/ Dispatch
    \/ EndDrain
    \/ \E w \in 1..MaxTasks : TaskOpen(w)
    \/ \E w \in 1..MaxTasks : TaskWake(w)
    \/ \E w \in 1..MaxTasks : MetricsReady(w)
    \/ \E w \in 1..MaxTasks : TaskLock(w)
    \/ \E w \in 1..MaxTasks : TaskUnlock(w)
    \/ \E w \in 1..MaxTasks : StreamEnd(w)
    \/ \E w \in 1..MaxTasks : SpinStop(w)

SpecLock == Init /\ [][NextLock]_vars

(***************************************************************************)
(* Cancellation of a running task: a component with its task at any place  *)
(* of its loop is cancelled while the tokio runtime goes on running the    *)
(* task                                                                    *)
(***************************************************************************)
\* the one task, in slot w, at a place of its loop, holding its Mutex at "push"
InitStop ==
    /\ pc = "await"
    /\ queue = <<>>
    /\ should_quit = FALSE
    /\ should_suspend = FALSE
    /\ input = <<>>
    /\ input_mode = "None"
    /\ cursor_position = 0
    /\ suggestion = None
    /\ show_popup = PopupNone
    /\ tui = TuiRunning
    /\ sent = <<>>
    /\ done = <<>>
    /\ bufs = OneBuf(0, <<>>)
    /\ \E w \in 1..MaxTasks :
          /\ \/ /\ \E l \in ListAnswers : main = Refreshed(NewContainers(w), l)
                /\ \E st \in {"idle", "busy", "push"} : tasks = OneTask(w, "metrics", st, 0)
             \/ \E cid \in 1..MaxItems, b \in 1..MaxTasks :
                   /\ main = NewContainerLogs(cid, w, b)
                   /\ \E st \in LiveSt : tasks = OneTask(w, "logs", st, b)
          /\ locks = IF tasks[w].st = "push"
                     THEN [NoLocks EXCEPT ![LockOf(tasks, w)] = w] ELSE NoLocks

NextStop ==
    \/ Cancel(main)
    \/ \E w \in 1..MaxTasks : TaskOpen(w)
    \/ \E w \in 1..MaxTasks : TaskWake(w)
    \/ \E w \in 1..MaxTasks : MetricsReady(w)
    \/ \E w \in 1..MaxTasks : TaskLock(w)
    \/ \E w \in 1..MaxTasks : TaskUnlock(w)
    \/ \E w \in 1..MaxTasks : StreamEnd(w)
    \/ \E w \in 1..MaxTasks : SpinStop(w)

\* the tokio runtime polls a task that can go on (weak fairness of its steps, the
\* Mutex is handed over in turn), and select!, which polls its branches in random
\* order, does not pass over the branch of cancel.cancelled() for ever
SpecStop ==
    /\ InitStop
    /\ [][NextStop]_vars
    /\ \A w \in 1..MaxTasks :
          /\ WF_vars(TaskOpen(w))
          /\ SF_vars(TaskLock(w))
          /\ WF_vars(TaskUnlock(w))
          /\ SF_vars(TaskUnlock(w) /\ tasks'[w].st \notin LiveSt)
          /\ WF_vars(SpinStop(w))

(***************************************************************************)
(* What the properties below read off a step                               *)
(***************************************************************************)
\* the step is one turn of the drain loop: it handles Head(queue)
DispatchStep == pc = "drain" /\ queue # <<>> /\ Len(done') = Len(done) + 1

\* the Component whose update the turn calls: the new one when the action is Screen
Receiver == IF Head(queue).t = "Screen" THEN Head(queue).s ELSE main

\* the tags of the actions this loop iteration has handled
DoneTags == [i \in 1..Len(done) |-> done[i].a]

\* the drain of this loop iteration has come to its end
DrainEnded == pc = "drain" /\ DrainDone

\* the actions the step has put into the channel
Enqueued == SubSeq(queue', Len(queue) + 1, Len(queue'))

\* the step is the handling of one Event::Key by App::run
KeyEventStep ==
    /\ pc = "await" /\ pc' # "await"
    /\ ~(\E t \in {"Tick", "Render", "Resize"} : Event(t))

\* the active screen binds the key: its get_action answers Some(action)
Binds(m, k) == BindsContainers(m, k) \/ get_action(m, k) # None

\* the actions out are the action the active screen binds to the key
ScreenBinding(m, k, out) ==
    IF BindsContainers(m, k)
    THEN Tags(out) = <<<<"Screen", "Containers">>>>
    ELSE out = get_action(m, k)

\* run() has returned or has been aborted: nothing is drawn any more
RunEnded == pc \in {"done", "failed", "panicked"}

RECURSIVE Ticks(_, _)
\* the popup after n more turns of the Action::Tick arm and no other arm between
Ticks(p, n) == IF n = 0 THEN p ELSE TickPopup(Ticks(p, n - 1))

(***************************************************************************)
(* Properties                                                              *)
(***************************************************************************)
\* C1 (the least it asks for): when a Screen action is handled, the new
\* component becomes the active one, and the background task of the component it
\* replaces (unless its slot was taken over by a component built meanwhile) is not
\* left running without its cancellation having been signalled.
C1_ReplacedWorkerSignalled ==
    [][(DispatchStep /\ Head(queue).t = "Screen" /\ main.task # 0)
       => /\ main'.kind = Head(queue).s.kind
          /\ (main.task \notin TaskRefs(main', queue') /\ tasks'[main.task].st \in LiveSt)
                => tasks'[main.task].cancelled]_vars

\* C2 (the least it asks for): a PreviousScreen handled while the Help or the
\* Error popup is shown only dismisses the popup: the active screen sends no
\* action in answer to it, so no Screen action replaces it.
C2_PopupSwallowsPreviousScreen ==
    [][(DispatchStep /\ Head(queue).t = "PreviousScreen" /\ show_popup.k \in {"Help", "Error"})
       => (show_popup'.k = "None" /\ queue' = Tail(queue))]_vars

\* C3: every action sent in a loop iteration is handled exactly once and in the
\* order it was sent (what was sent is what was handled followed by what is
\* pending), and the channel is empty whenever the loop awaits the next event or
\* leaves.
C3_DrainInOrder ==
    /\ sent = DoneTags \o Tags(queue)
    /\ pc \in {"await", "done"} => queue = <<>>

\* C3 witness: a drain that handled three actions or more has emptied the channel
C3_Witness == DrainEnded /\ Len(done) >= 3


\* C4: in one loop iteration at most one Tick is handed to the update of the
\* active screen, whether it came from the terminal or from a list screen after a
\* deletion.
C4_OneTickPerDrain ==
    Cardinality({i \in 1..Len(done) : done[i].a = <<"Tick">> /\ done[i].fwd}) <= 1

\* C4 witness: the Tick a list screen sent after the Ok of a deletion has been
\* handed to the screen in the same loop iteration
C4_Witness ==
    \E i, j \in 1..Len(done) :
        i < j /\ done[i].a = <<"Ok">> /\ done[i].fwd /\ done[j].a = <<"Tick">> /\ done[j].fwd

\* C5 (as the specification states it): when the drain in which a Suspend was
\* handled has ended, the suspend flag is true, so that the loop suspends and
\* recreates the terminal driver.
C5_SuspendFlagAtDrainEnd ==
    (DrainEnded /\ \E i \in 1..Len(done) : done[i].a = <<"Suspend">>) => should_suspend

\* C5 (amended): the flag is true exactly from the handling of a Suspend to the
\* handling of the next Resume; the screen that sends Suspend sends with it the
\* exec screen, which sends Resume in the same drain, and every action in between
\* is handled; so the flag is false whenever a drain ends and the loop never goes
\* through its suspend branch, which would leave a Resume in the channel.
C5_SuspendUntilResume ==
    /\ should_suspend =
          \E i \in 1..Len(done) :
              done[i].a = <<"Suspend">> /\ \A j \in (i + 1)..Len(done) : done[j].a # <<"Resume">>
    /\ DrainEnded => ~should_suspend
    /\ pc = "await" => queue = <<>>
    /\ sent = DoneTags \o Tags(queue)

\* C5 witness: a drain in which a Suspend and then a Resume were handled has ended
C5_Witness ==
    /\ DrainEnded
    /\ \E i, j \in 1..Len(done) : i < j /\ done[i].a = <<"Suspend">> /\ done[j].a = <<"Resume">>

\* C6 (as the specification states it): when the handler of Since returns on the
\* log screen, the follower it replaced has finished and exactly one follower
\* is running.
C6_OldFollowerFinished ==
    [][(DispatchStep /\ Head(queue).t = "Since" /\ main.kind = "ContainerLogs"
        /\ done'[Len(done')].fwd)
       => /\ tasks'[main.task].st \notin LiveSt
          /\ Cardinality({w \in 1..MaxTasks :
                            tasks'[w].kind = "logs" /\ tasks'[w].st \in LiveSt}) = 1]_vars

\* C9: Shell on the container list with a row selected and no popup open sends
\* Suspend and then Screen(exec of the selected container) and nothing else; the
\* exec screen whose session has run to the end of its output sends Resume and
\* then Screen(container list).
C9_ShellThenExec ==
    [][(DispatchStep /\ done'[Len(done')].fwd)
       => /\ (Head(queue).t = "Shell" /\ main.kind = "Containers" /\ main.popup = "None"
              /\ Selected(main) # 0)
             => queue' = Tail(queue)
                         \o <<Act("Suspend"), ActScreen(NewContainerExec(Selected(main)))>>
          /\ (Receiver.kind = "ContainerExec" /\ ~Receiver.should_stop /\ pc' = "drain")
             => \E w \in 1..MaxTasks :
                   queue' = Tail(queue) \o <<Act("Resume"), ActScreen(NewContainers(w))>>]_vars

\* C9 witness: Shell, Suspend and Screen(exec) have been handled in this order and
\* the exec screen has sent Resume and Screen(container list)
C9_Witness ==
    /\ Len(done) >= 3
    /\ done[Len(done) - 2].a = <<"Shell">>
    /\ done[Len(done) - 1].a = <<"Suspend">>
    /\ done[Len(done)].a = <<"Screen", "ContainerExec">>
    /\ Len(queue) = 2 /\ queue[1].t = "Resume" /\ queue[2].t = "Screen"
    /\ queue[2].s.kind = "Containers"

\* C10 (as the specification states it): Ok on the container list with the Delete
\* popup open, when the deletion succeeds (the popup closes), sends a Tick.
C10_DeleteThenTick ==
    [][(DispatchStep /\ done'[Len(done')].fwd /\ Head(queue).t = "Ok"
        /\ main.kind = "Containers" /\ main.popup = "Delete" /\ main'.popup = "None")
       => queue' = Tail(queue) \o <<Act("Tick")>>]_vars

\* C7: cancelling is idempotent: the first cancel of a component's task leaves it
\* signalled and aborted, and a further cancel, through the component or a clone
\* of it, fails nowhere and changes nothing in any task.
C7_CancelIdempotent ==
    [][(Len(done') = Len(done) + 1)
       => /\ tasks'[main.task].cancelled /\ tasks'[main.task].aborted
          /\ tasks'[main.task].st # "idle" /\ tasks'[main.task].st # "start"
          /\ pc' = pc
          /\ tasks[main.task].cancelled => tasks' = tasks]_vars

\* C7 witness: the task was being polled at its first cancel and has been
\* cancelled again since
C7_Witness ==
    Len(done) >= 2 /\ tasks[main.task].cancelled /\ tasks[main.task].st = "busy"

\* C8 (as the specification states it): no operation of the line editor fails,
\* and after each of them the cursor is between 0 and the length of the text, in
\* characters, the unit in which delete_char takes the cursor.
C8_CursorWithinBuffer ==
    /\ pc # "panicked"
    /\ 0 <= cursor_position
    /\ cursor_position <= chars_count(input)

\* C11: on the container list, Ok with the Delete popup open either succeeds
\* (the popup closes, nothing is sent) or fails: then exactly one Error action is
\* enqueued and the component, its Delete popup and the id in it are what they
\* were.  The popup and its id change by nothing but a forwarded Ok (the retry), a
\* forwarded PreviousScreen (the cancel) or the replacement of the screen.
C11_DeleteFailureKeepsPopup ==
    [][(main.kind = "Containers" /\ main.popup = "Delete")
       => /\ (DispatchStep /\ done'[Len(done')].fwd /\ Head(queue).t = "Ok")
             => \/ main'.popup = "None" /\ queue' = Tail(queue)
                \/ main' = main /\ queue' = Tail(queue) \o <<ActError("docker")>>
          /\ (main'.popup # main.popup \/ main'.pid # main.pid)
             => /\ DispatchStep
                /\ \/ Head(queue).t = "Screen"
                   \/ done'[Len(done')].fwd /\ Head(queue).t \in {"Ok", "PreviousScreen"}]_vars

\* C11 witness: the Error of a failed deletion is on display, the Delete popup is
\* still open for the same row, and the Ok that retried it has failed again
C11_Witness ==
    /\ main.kind = "Containers" /\ main.popup = "Delete" /\ main.pid = Selected(main)
    /\ show_popup.k = "Error"
    /\ Len(done) >= 1 /\ done[Len(done)].a = <<"Ok">> /\ done[Len(done)].fwd
    /\ queue = <<ActError("docker")>>

\* C12 (as the specification states it): whatever the runtime client answers to a
\* call made in the update of a list or detail screen, the call of update returns
\* Ok and the drain loop of run() goes on: run() neither returns nor aborts.
C12_UpdateNeverEndsRun ==
    [][(DispatchStep /\ done'[Len(done')].fwd /\ Receiver.kind # "ContainerExec")
       => pc' = "drain"]_vars

\* C13 (as the specification states it): when the update of a screen answers a
\* failed call of the runtime client with an Error action, the rows the screen
\* lists, its selection and the resource it shows are what they were before the
\* call.
C13_FailureLeavesScreenState ==
    [][(DispatchStep /\ done'[Len(done')].fwd
        /\ \E i \in Len(queue)..Len(queue') : queue'[i].t = "Error")
       => /\ main'.items = Receiver.items
          /\ main'.sel = Receiver.sel
          /\ main'.cid = Receiver.cid]_vars

\* C14: an action is handed to the update of the active screen exactly when
\* InputMode is None once App::run has done its own handling of it.  While
\* InputMode is Change or Filter, and for the Change or Filter action that enters
\* the mode, the turn of the drain loop only takes the action off the channel:
\* the screen is not changed, nothing is sent and run() goes on.
C14_ForwardOnlyInModeNone ==
    [][DispatchStep
       => /\ done'[Len(done')].fwd = (input_mode' = "None")
          /\ (input_mode # "None" \/ Head(queue).t \in {"Change", "Filter"})
             => /\ ~done'[Len(done')].fwd
                /\ main' = Receiver
                /\ queue' = Tail(queue)
                /\ pc' = pc]_vars

\* C14 witness: a drain in Filter mode has taken a Tick off the channel without
\* handing it to the screen
C14_Witness ==
    /\ input_mode = "Filter"
    /\ DrainEnded
    /\ done = <<[a |-> <<"Tick">>, fwd |-> FALSE]>>

\* C15 (as the specification states it): when run() has left its loop on Quit,
\* the background task of the screen that was active has been cancelled and
\* aborted by the teardown of that screen.
C15_QuitTearsDown ==
    (pc = "done" /\ main.task # 0)
    => (tasks[main.task].cancelled /\ tasks[main.task].aborted)

\* C16 (as the specification states it): when a Screen action is handled, the
\* teardown of the outgoing screen is called before the calls on the incoming one
\* (register_action_handler, setup) and before the incoming one is installed.
C16_TeardownFirst ==
    [][(DispatchStep /\ Head(queue).t = "Screen")
       => /\ StepAt("teardown") < StepAt("register_action_handler")
          /\ StepAt("teardown") < StepAt("setup")
          /\ StepAt("teardown") < StepAt("install")]_vars

\* C17: an exec session runs only in the update that follows the setup hook of
\* its screen, with the terminal driver stopped by that hook; the screen sends
\* Resume and then the screen of the container list, and once these are handled the
\* terminal driver is running again.  While run() is in its loop, the terminal
\* driver is stopped in no state whose active screen is not the exec screen.
C17_DriverStoppedForExec ==
    /\ []((pc \in {"await", "drain"} /\ main.kind # "ContainerExec") => tui = TuiRunning)
    /\ [][/\ (/\ DispatchStep
              /\ done'[Len(done')].fwd
              /\ Receiver.kind = "ContainerExec"
              /\ ~Receiver.should_stop)
             => /\ Head(queue).t = "Screen"
                /\ tui' = TuiStopped
                /\ pc' = "drain"
                   => \E w \in 1..MaxTasks :
                         queue' = Tail(queue) \o <<Act("Resume"), ActScreen(NewContainers(w))>>
          /\ (DispatchStep /\ main.kind = "ContainerExec")
             => /\ Head(queue).t \in {"Resume", "Screen"}
                /\ tui' = TuiRunning]_vars

\* C17 witness: a drain has ended in which the exec screen was set up, ran its
\* session and was replaced by the container list, and the terminal driver runs
C17_Witness ==
    /\ DrainEnded
    /\ Len(done) >= 3
    /\ done[Len(done) - 2].a = <<"Screen", "ContainerExec">>
    /\ done[Len(done) - 1].a = <<"Resume">>
    /\ done[Len(done)].a = <<"Screen", "Containers">>
    /\ main.kind = "Containers"
    /\ tui = TuiRunning

\* the tasks that copy stdin to the remote channel and are running
StdinCopiers == {w \in 1..MaxTasks : tasks[w].kind = "stdin" /\ tasks[w].st \in LiveSt}

\* C18: from the entry of the exec screen's update to the end of the session,
\* and as long as the task that copies stdin is running, run() is inside that
\* update (or has panicked in it): it takes no event from the terminal driver,
\* handles no action and so draws nothing, and the terminal driver, stopped by the
\* setup hook, reads no input.  The steps of the session leave the channel, the
\* popup and the terminal driver alone until update sends its two actions.
C18_SessionOwnsStdio ==
    /\ []((pc \in ExecPcs \/ StdinCopiers # {})
          => /\ pc \in ExecPcs \cup {"panicked"}
             /\ main.kind = "ContainerExec"
             /\ ~TuiReadsInput(tui))
    /\ [][(pc \in ExecPcs)
          => /\ done' = done
             /\ tui' = tui
             /\ show_popup' = show_popup
             /\ (queue' = queue \/ pc' = "drain")]_vars

\* C18 witness: the session is copying: a chunk of remote output has been written
\* to stdout and the stdin task holds a byte it is about to write to the channel
C18_Witness ==
    /\ pc = "exec_copy"
    /\ Len(main.items) >= 1
    /\ tasks[main.task].kind = "stdin" /\ tasks[main.task].st = "busy"
    /\ tui = TuiStopped

\* C19: when the remote output ends, the task that copies stdin is told to stop;
\* the exec screen sends Resume, and after it the screen of the container list,
\* only when that task has been told to stop and has ended; so from the moment
\* Resume is on the channel no such task runs, and none writes to the remote
\* channel.
C19_StdinCopyJoinedBeforeResume ==
    /\ []((\E i \in 1..Len(sent) : sent[i] = <<"Resume">>) => StdinCopiers = {})
    /\ [][/\ (pc = "exec_copy" /\ pc' = "exec_join") => tasks'[main.task].cancelled
          /\ (pc = "exec_join" /\ pc' = "drain")
             => /\ tasks[main.task].cancelled
                /\ tasks[main.task].st = "done"
                /\ \E w \in 1..MaxTasks :
                      queue' = queue \o <<Act("Resume"), ActScreen(NewContainers(w))>>
          /\ (\E i \in 1..Len(sent) : sent[i] = <<"Resume">>)
             => \A b \in 1..MaxTasks : Len(bufs'[b]) <= Len(bufs[b])]_vars

\* C19 witness: the session is over: the exec screen has sent Resume and then the
\* screen of the container list, both still on the channel, and no task copies
\* stdin
C19_Witness ==
    /\ pc = "drain"
    /\ main.kind = "ContainerExec" /\ main.should_stop
    /\ Tags(queue) = <<<<"Resume">>, <<"Screen", "Containers">>>>
    /\ StdinCopiers = {}

\* C20 (as the specification states it): when creating or starting the exec
\* fails, update returns to the drain loop with an Error action sent, and run()
\* goes on.
C20_ExecFailureReported ==
    [][(pc \in {"exec_create", "exec_start"} /\ pc' \notin {"exec_start", AfterSpawn})
       => /\ pc' = "drain"
          /\ \E i \in 1..Len(queue') : queue'[i].t = "Error"]_vars

\* C21 (as the specification states it): the draw of a screen never has to wait
\* for a background task: no Render or Resize is being handled while a task holds
\* the Mutex that the draw of the active screen locks.
C21_DrawNeverWaits == ~DrawWaits

\* C22: a Mutex is held only by a task that is between its lock() and the drop of
\* the guard, being polled: never by a task parked at an await (opening the
\* stream, the stream read, the sleep, the remote calls), nor by one that has ended.
C22_NoLockAcrossAwait ==
    \A l \in Locks :
        locks[l] # 0 => (tasks[locks[l]].st = "push" /\ LockOf(tasks, locks[l]) = l)

\* C22 witness: a follower holds the Mutex of its log buffer, having taken it for
\* a push, while its cancellation has been signalled
C22_Witness ==
    \E w \in 1..MaxTasks :
        /\ tasks[w].kind = "logs" /\ tasks[w].cancelled
        /\ locks[tasks[w].buf] = w

\* C23 (as the specification states it): when the log stream of a follower ends,
\* the follower leaves its loop and its task returns, whether or not it was
\* cancelled: no follower is left in its loop on a stream that has ended.
C23_EndedStreamFollowerReturns ==
    \A w \in 1..MaxTasks : tasks[w].kind = "logs" => tasks[w].st # "spin"

\* C24: a task whose cancellation is signalled, wherever it is in its loop (parked
\* at a stream read or at its sleep, holding an item, holding the Mutex, turning on
\* an ended stream), comes to its end; and a task that has come to its end takes
\* no further step: it starts no unit of work, takes no Mutex, writes to no buffer.
C24_CancelledWorkerStops ==
    /\ \A w \in 1..MaxTasks :
          (tasks[w].cancelled /\ tasks[w].st \in LiveSt) ~> (tasks[w].st \notin LiveSt)
    /\ [][\A w \in 1..MaxTasks :
             tasks[w].st = "done"
             => (tasks'[w].st = "done" /\ bufs' = bufs /\ locks' = locks)]_vars

\* C24 witness: the cancellation of a task was signalled in the middle of a unit
\* of work: the task holds the Mutex for its write
C24_Witness ==
    \E w \in 1..MaxTasks :
        tasks[w].cancelled /\ tasks[w].st = "push" /\ locks[LockOf(tasks, w)] = w


\* C25 (as the specification states it): at most one overlay popup is visible at any
\* time: whenever the popup of the App is Error or Help, the active screen shows no
\* popup of its own (Delete confirmation, custom shell)
C25_OnePopupVisible ==
    /\ show_popup.k \in {"None", "Error", "Help"}
    /\ (show_popup.k # "None") => (main.popup = "None")


\* C26: an Error action sets the popup to Error with ttl = timeout = 8; each Tick
\* dispatched while the Error popup has ttl > 0 lowers ttl by exactly 1 and leaves
\* the rest of the popup as it was; ttl stays within 0..timeout; the Tick dispatched
\* with ttl = 0 sets the popup to None, so with nothing else changing the popup it
\* is still Error after 8 Ticks and None at the 9th
C26_ToastCountdown ==
    /\ [](show_popup.k = "Error"
          => /\ show_popup.timeout = DEFAULT_TOAST_DELAY
             /\ show_popup.ttl \in 0..show_popup.timeout
             /\ Ticks(show_popup, show_popup.ttl).k = "Error"
             /\ Ticks(show_popup, show_popup.ttl + 1) = PopupNone)
    /\ [](\A n \in 0..DEFAULT_TOAST_DELAY :
              /\ Ticks(PopupError("docker"), n).k = "Error"
              /\ Ticks(PopupError("docker"), n).ttl = DEFAULT_TOAST_DELAY - n)
    /\ [](Ticks(PopupError("docker"), DEFAULT_TOAST_DELAY + 1) = PopupNone)
    /\ [][DispatchStep
          => /\ (Head(queue).t = "Error")
                => /\ show_popup'.k = "Error"
                   /\ show_popup'.ttl = 8 /\ show_popup'.timeout = 8
             /\ (Head(queue).t = "Tick" /\ show_popup.k = "Error")
                => IF show_popup.ttl > 0
                   THEN show_popup' = [show_popup EXCEPT !.ttl = show_popup.ttl - 1]
                   ELSE show_popup' = PopupNone]_vars

\* C26 witness: eight Ticks have brought the Error popup down to ttl = 0, and the
\* ninth Tick is the next action the drain dispatches
C26_Witness ==
    /\ show_popup.k = "Error" /\ show_popup.ttl = 0
    /\ pc = "drain" /\ queue # <<>> /\ Head(queue).t = "Tick"


\* C27 (as the specification states it): whenever an Error popup is visible, with
\* Tick events delivered fairly the popup eventually leaves the Error state
C27_ErrorEventuallyDismissed ==
    (show_popup.k = "Error" /\ ~RunEnded) ~> (show_popup.k # "Error" \/ RunEnded)

\* C27 (amended): whenever an Error popup is visible, with Tick events delivered
\* fairly the popup eventually leaves the Error state, unless another Error action
\* arrives first and starts the countdown again
C27_ErrorDismissedOrRenewed ==
    (show_popup.k = "Error" /\ ~RunEnded)
        ~> \/ show_popup.k # "Error"
           \/ RunEnded
           \/ pc = "drain" /\ queue # <<>> /\ Head(queue).t = "Error"

\* C27 witness: an Error popup has counted down to ttl = 0 with no Error action
\* waiting in the channel, and the next Tick is about to dismiss it
C27_Witness ==
    /\ show_popup.k = "Error" /\ show_popup.ttl = 0
    /\ pc = "drain" /\ queue = <<Act("Tick")>>
    /\ input_mode = "None"


\* C28 (as the specification states it): once the Help popup is shown it stays
\* shown until a PreviousScreen is dispatched: the only step that changes the popup
\* away from Help is the dispatch of PreviousScreen
C28_HelpUntilPreviousScreen ==
    [][(show_popup.k = "Help" /\ show_popup'.k # "Help")
       => (DispatchStep /\ Head(queue).t = "PreviousScreen")]_vars


\* C29: run() leaves its loop by the break only after a Quit was dispatched: the
\* quit flag is set by the dispatch of Quit and by nothing else and is never
\* cleared; a drain pass that has dispatched Quit ends the loop when the channel
\* is empty and the suspend flag is clear, goes round again when the suspend flag
\* is set, and is cut short only by a failure of update; once the flag is set the
\* loop does exit
C29_QuitEndsRun ==
    /\ [](pc = "done" => (should_quit /\ ~should_suspend /\ queue = <<>>))
    /\ [][/\ (DispatchStep /\ Head(queue).t = "Quit") => should_quit'
          /\ should_quit => should_quit'
          /\ (~should_quit /\ should_quit') => (DispatchStep /\ Head(queue).t = "Quit")
          /\ (pc # "done" /\ pc' = "done")
             => (pc = "drain" /\ DrainDone /\ should_quit /\ ~should_suspend)
          /\ (should_quit /\ pc = "drain" /\ pc' # "drain")
             => IF DrainDone
                THEN pc' = (IF should_suspend THEN "await" ELSE "done")
                ELSE pc' \in {"failed", "panicked"}]_vars
    /\ should_quit ~> RunEnded

\* C29 witness: Quit was dispatched on the log screen, the drain pass came to its
\* end and run() has left its loop
C29_Witness ==
    /\ pc = "done" /\ should_quit /\ tui = TuiStopped
    /\ main.kind = "ContainerLogs"


\* C30 (as the specification states it): each key event enqueues at most one
\* Action; while InputMode is Change or Filter a key produces no navigation, Quit
\* or screen-binding Action; whenever InputMode is None a key the active screen
\* binds is mapped to the screen's Action, and a key it does not bind to the
\* Action of the global keymap
C30_ScreenBindingFirst ==
    [][KeyEventStep
       => /\ Len(queue') <= Len(queue) + 1
          /\ (input_mode # "None")
             => \A i \in 1..Len(Enqueued) : Enqueued[i].t \in {"Screen", "SetFilter", "Error"}
          /\ \A k \in KeysBound :
                KeyScreen(k)
                => IF Binds(main, k)
                   THEN ScreenBinding(main, k, Enqueued)
                   ELSE Enqueued = GlobalKey(main, k)]_vars

\* C30 (amended): as above, but the screen's binding is used only while no popup of
\* the App is shown, and the custom-shell popup of the container list takes the
\* character, Backspace, Left, Right and Esc keys for itself, which then enqueue
\* nothing; with a popup of the App shown every key goes to the global keymap
C30_ScreenBindingUnlessPopup ==
    [][KeyEventStep
       => /\ Len(queue') <= Len(queue) + 1
          /\ (input_mode # "None")
             => \A i \in 1..Len(Enqueued) : Enqueued[i].t \in {"Screen", "SetFilter", "Error"}
          /\ \A k \in KeysBound :
                KeyScreen(k)
                => IF ShellPopupTakes(main, k)
                   THEN Enqueued = <<>>
                   ELSE IF show_popup.k = "None" /\ Binds(main, k)
                   THEN ScreenBinding(main, k, Enqueued)
                   ELSE Enqueued = GlobalKey(main, k)]_vars

\* C30 witness: with the Error popup on display, 'l' was pressed on the container
\* list, which binds it to Logs, and the key event has enqueued nothing
C30_Witness ==
    /\ pc = "drain" /\ queue = <<>> /\ done = <<>> /\ sent = <<>>
    /\ show_popup.k = "Error" /\ input_mode = "None"
    /\ main.kind = "Containers" /\ get_action(main, KeyChar("l")) = Some(Act("Logs"))


\* C31 (as the specification states it): in Change mode Enter enqueues Screen(X)
\* only when the buffer is a non-empty prefix of the resource name X, and then
\* resets buffer, cursor and InputMode; in every other case it enqueues
\* Error("No resource found") and leaves buffer, cursor and InputMode unchanged
C31_EnterMatchesBuffer ==
    [][(SubmitInput /\ input_mode = "Change")
       => IF input # <<>> /\ \E k \in 1..Len(get_suggestions) : starts_with(get_suggestions[k], input)
          THEN /\ \E k \in 1..Len(get_suggestions) :
                     /\ starts_with(get_suggestions[k], input)
                     /\ Tags(Enqueued) = <<<<"Screen", SubmitKind(get_suggestions[k])>>>>
               /\ input' = <<>> /\ cursor_position' = 0 /\ input_mode' = "None"
          ELSE /\ Enqueued = <<ActError("No resource found")>>
               /\ input' = input /\ cursor_position' = cursor_position
               /\ input_mode' = input_mode]_vars


\* C32 (as the specification states it): on the container list SetFilter(Some(text))
\* with a text that fails the validation enqueues Error and leaves the filter as it
\* was, with a valid text it replaces the filter by the one the text describes (for
\* "key=value" the entry key = value, for "key=" the entry name = key, for a text
\* without '=' no entry), and SetFilter(None) empties the filter; Enter in Filter mode resets the editor
\* and enqueues SetFilter(None) for an empty buffer, SetFilter(Some(buffer)) otherwise
C32_SetFilterReplaces ==
    [][/\ (DispatchStep /\ Head(queue).t = "SetFilter" /\ main.kind = "Containers"
           /\ done'[Len(done')].fwd)
          => LET f == Head(queue).f
             IN IF f # None /\ ~validate_container_filters(f[1])
                THEN /\ Len(queue') = 1 /\ queue'[1].t = "Error"
                     /\ main'.filter = main.filter
                ELSE /\ queue' = <<>>
                     /\ IF f = None \/ ~(\E i \in 1..Len(f[1]) : f[1][i] = "=")
                        THEN main'.filter = <<>>
                        ELSE LET k == main'.filter[1]
                                 v == main'.filter[2]
                             IN /\ Len(main'.filter) = 2
                                /\ IF f[1][Len(f[1])] = "=" /\ Len(SelectSeq(f[1], LAMBDA c : c = "=")) = 1
                                   THEN k = <<"n", "a", "m", "e">> /\ v \o <<"=">> = f[1]
                                   ELSE k \o <<"=">> \o v = f[1] /\ ~(\E i \in 1..Len(k) : k[i] = "=")
       /\ (SubmitInput /\ input_mode = "Filter")
          => /\ Enqueued = <<[t |-> "SetFilter", f |-> IF input = <<>> THEN None ELSE Some(input)]>>
             /\ input' = <<>> /\ cursor_position' = 0 /\ input_mode' = "None"]_vars

\* C32 (amended): the same, for a SetFilter handled while the container list shows
\* no popup of its own; while its Delete popup is open a SetFilter changes nothing
\* and enqueues nothing, whatever its text
C32_SetFilterUnlessPopup ==
    [][/\ (DispatchStep /\ Head(queue).t = "SetFilter" /\ main.kind = "Containers"
           /\ done'[Len(done')].fwd)
          => LET f == Head(queue).f
             IN IF main.popup # "None"
                THEN queue' = <<>> /\ main' = main
                ELSE IF f # None /\ ~validate_container_filters(f[1])
                THEN /\ Len(queue') = 1 /\ queue'[1].t = "Error"
                     /\ main' = main
                ELSE /\ queue' = <<>>
                     /\ main' = [main EXCEPT !.filter = main'.filter]
                     /\ IF f = None \/ ~(\E i \in 1..Len(f[1]) : f[1][i] = "=")
                        THEN main'.filter = <<>>
                        ELSE LET k == main'.filter[1]
                                 v == main'.filter[2]
                             IN /\ Len(main'.filter) = 2
                                /\ IF f[1][Len(f[1])] = "=" /\ Len(SelectSeq(f[1], LAMBDA c : c = "=")) = 1
                                   THEN k = <<"n", "a", "m", "e">> /\ v \o <<"=">> = f[1]
                                   ELSE k \o <<"=">> \o v = f[1] /\ ~(\E i \in 1..Len(k) : k[i] = "=")
       /\ (SubmitInput /\ input_mode = "Filter")
          => /\ Enqueued = <<[t |-> "SetFilter", f |-> IF input = <<>> THEN None ELSE Some(input)]>>
             /\ input' = <<>> /\ cursor_position' = 0 /\ input_mode' = "None"]_vars

\* C32 witness: the text "id=v" was entered on a container list with an empty
\* filter and no popup, and the filter is now id=v
C32_Witness ==
    /\ main.kind = "Containers" /\ main.popup = "None"
    /\ main.filter = <<<<"i", "d">>, <<"v">>>>
    /\ done = <<[a |-> <<"SetFilter">>, fwd |-> TRUE]>>
    /\ pc = "drain" /\ queue = <<>>


\* C33: on the volumes and the networks list, an Ok handed to the screen while its
\* Delete confirmation is open closes the confirmation and enqueues one Tick,
\* after an Error when the deletion failed and alone when it succeeded; on the
\* container list an Ok that enqueues an Error leaves the confirmation open.
C33_DeleteClosesAndTicks ==
    [][(DispatchStep /\ done'[Len(done')].fwd /\ Head(queue).t = "Ok" /\ main.popup = "Delete")
       => IF main.kind \in {"Volumes", "Networks"}
          THEN /\ main'.popup = "None"
               /\ \/ queue' = Tail(queue) \o <<Act("Tick")>>
                  \/ queue' = Tail(queue) \o <<ActError("docker"), Act("Tick")>>
          ELSE (main.kind = "Containers" /\ queue' # Tail(queue))
               => main'.popup = "Delete"]_vars

\* C33 witness: the networks list has just handled the Ok of a deletion that
\* failed: its confirmation is closed, the Error and then the Tick are waiting
C33_Witness ==
    /\ main.kind = "Networks" /\ main.popup = "None" /\ main.items # <<>>
    /\ Len(done) >= 1 /\ done[Len(done)].a = <<"Ok">> /\ done[Len(done)].fwd
    /\ queue = <<ActError("docker"), Act("Tick")>>


\* C34: every drain pass comes to its end.  The actions handled in one loop
\* iteration, the one the terminal event produced and all the follow-ups the
\* screens enqueued while it was drained (Tick after a deletion, Error, Suspend and
\* Screen(exec), Resume and Screen(list), Screen on PreviousScreen), are never more
\* than five, whatever the screen and whatever the runtime client answers; and
\* once the loop is draining it leaves the drain: for the next event, or because
\* run() returns or is aborted.
C34_DrainTerminates ==
    /\ [](Len(done) <= 5)
    /\ (pc = "drain") ~> (pc # "drain")

\* C34 witness: the longest chain has been drained: Shell, the Suspend and the
\* Screen(exec) it enqueued, and the Resume and the Screen(list) of the exec screen
C34_Witness ==
    /\ DrainEnded
    /\ DoneTags = <<<<"Shell">>, <<"Suspend">>, <<"Screen", "ContainerExec">>, <<"Resume">>,
                   <<"Screen", "Containers">>>>


\* C35: when a drain pass has come to its end the suspend flag is false, so the
\* loop never takes its suspend-and-recreate step; every Suspend handled in the
\* pass was followed, in the same pass, by an exec Screen that was installed and
\* handed to its update (the inline session) and then by the Resume it enqueued.
C35_NoSuspendAtDrainEnd ==
    DrainEnded
    => /\ ~should_suspend
       /\ \A i \in 1..Len(done) :
             done[i].a = <<"Suspend">>
             => \E j, k \in 1..Len(done) :
                   /\ i < j /\ j < k
                   /\ done[j].a = <<"Screen", "ContainerExec">> /\ done[j].fwd
                   /\ done[k].a = <<"Resume">>

\* C35 witness: the custom-shell flow has been drained: the Ok of the popup, the
\* Suspend, the exec Screen, the Resume and the list Screen, and the flag is false
C35_Witness ==
    /\ DrainEnded
    /\ ~should_suspend
    /\ DoneTags = <<<<"Ok">>, <<"Suspend">>, <<"Screen", "ContainerExec">>, <<"Resume">>,
                   <<"Screen", "Containers">>>>


\* C36: an exec screen runs at most one session.  The first action handed to its
\* update runs the session and then, unless the session aborted the program, sets
\* should_stop and enqueues Resume and the Screen of the container list; every
\* action handed to it after that leaves the screen as it is and enqueues
\* nothing.  So one loop iteration sends at most one Resume.
C36_OneSessionPerExecScreen ==
    /\ [](Cardinality({i \in 1..Len(sent) : sent[i] = <<"Resume">>}) <= 1)
    /\ [][(DispatchStep /\ done'[Len(done')].fwd /\ Receiver.kind = "ContainerExec")
          => IF Receiver.should_stop
             THEN main' = Receiver /\ queue' = Tail(queue)
             ELSE \/ pc' = "panicked" /\ queue' = Tail(queue)
                  \/ /\ main' = [Receiver EXCEPT !.should_stop = TRUE]
                     /\ Len(queue') = Len(queue) + 1
                     /\ Tags(SubSeq(queue', Len(queue), Len(queue')))
                           = <<<<"Resume">>, <<"Screen", "Containers">>>>]_vars

\* C36 witness: the exec screen whose session is over has been handed the Resume
\* it enqueued, and the Screen of the container list is all that is left to drain
C36_Witness ==
    /\ main.kind = "ContainerExec" /\ main.should_stop
    /\ Len(done) >= 2
    /\ done[Len(done)].a = <<"Resume">> /\ done[Len(done)].fwd
    /\ done[Len(done) - 1].a = <<"Screen", "ContainerExec">>
    /\ Tags(queue) = <<<<"Screen", "Containers">>>>


\* C37 (as the specification states it): the log buffer of the log screen holds
\* only lines its current follower appended; once Since has cleared the buffer and
\* started a new follower, the follower it replaced appends nothing more (a line
\* is recorded as the slot of the task that pushed it).
C37_OnlyNewFollowerAppends ==
    main.kind = "ContainerLogs"
    => \A i \in 1..Len(bufs[main.buf]) : bufs[main.buf][i] = main.task


\* C38 (the least it asks for): on a list screen whose list is not empty, a
\* selected index is the index of a row of the list, whatever Ticks, Ups and Downs
\* the screen has handled.
C38_SelectionOnARow ==
    (main.kind \in {"Containers", "Images", "Volumes", "Networks", "Composes"}
     /\ main.items # <<>> /\ main.sel # NoSel)
    => main.sel < Len(main.items)


\* C39 (the least it asks for): on the container, image, volume and network
\* lists, with no popup of the list open, SortColumn(n) for a bound column n
\* leaves the sort on column n: descending when the sort was (column n,
\* ascending), ascending otherwise; for an unbound n the sort stays as it was.
C39_SortColumnSelectsN ==
    [][(DispatchStep /\ done'[Len(done')].fwd /\ Head(queue).t = "SortColumn"
        /\ main.kind \in {"Containers", "Images", "Volumes", "Networks"} /\ main.popup = "None")
       => LET n == Head(queue).n
              cols == IF main.kind = "Containers" THEN <<"Id", "Name", "Image", "Status", "Age">>
                      ELSE IF main.kind = "Images" THEN <<"Id", "Name", "Size", "Age">>
                      ELSE IF main.kind = "Volumes" THEN <<"Id", "Driver", "Size", "Age">>
                      ELSE <<"Id", "Name", "Driver", "Age">>
          IN IF n \in 1..Len(cols)
             THEN main'.sort = <<cols[n], IF main.sort = <<cols[n], "Asc">> THEN "Desc" ELSE "Asc">>
             ELSE main'.sort = main.sort]_vars


\* C40: while the Delete confirmation or the custom-shell popup of the container
\* list is open, a Tick, Up, Down, All, SetFilter, SortColumn, Inspect, Logs,
\* Shell, CustomShell or Delete that is handled leaves the whole list screen (rows,
\* selection, sort, filter, popup and the container the popup names) as it was and
\* enqueues nothing; and the container a popup names when it opens is the one of
\* the selected row, so that is the one Ok deletes.
C40_PopupFreezesList ==
    /\ [][(DispatchStep /\ main.kind = "Containers" /\ main.popup # "None"
           /\ Head(queue).t \in {"Tick", "Up", "Down", "All", "SetFilter", "SortColumn", "Inspect",
                                 "Logs", "Shell", "CustomShell", "Delete"})
          => main' = main /\ queue' = Tail(queue)]_vars
    /\ [][(main.kind = "Containers" /\ main.popup = "None"
           /\ main'.kind = "Containers" /\ main'.popup # "None")
          => /\ main.sel \in 0..(Len(main.items) - 1)
             /\ main'.pid = main.items[main.sel + 1]
             /\ main' = [main EXCEPT !.popup = main'.popup, !.pid = main'.pid]]_vars

\* C40 witness: the Delete confirmation is open for the second row, which is
\* still the selected one, and a Tick has just been handed to the list
C40_Witness ==
    /\ main.kind = "Containers" /\ main.popup = "Delete"
    /\ main.sel = 1 /\ Len(main.items) = 2 /\ main.pid = main.items[2]
    /\ done = <<[a |-> <<"Tick">>, fwd |-> TRUE]>>
    /\ DrainEnded

====
